---- MODULE Spec2Model ----
(***************************************************************************)
(* Model of the forecast callbacks of src/app.py (a Dash dashboard).       *)
(*                                                                         *)
(* Numbers.  The program computes in IEEE doubles; the model computes the  *)
(* same expressions exactly, in fixed point:                               *)
(*   - pollutant values (lags, predictions) are integers in hundredths;    *)
(*   - the moving average is an integer in units of 1/(100 * MaDen),       *)
(*     MaDen = 3^(Steps+1), so that each of its divisions by 3 is exact;   *)
(*   - weekday_factor is a numerator over WfDen, weather_factor over       *)
(*     WcDen, random_factor over NfDen, the draw U over UDen.              *)
(*   - the rolling statistics of the PM10 form are integers in units of    *)
(*     1/(100 * StatScale); an absent input (None) is the value None;      *)
(*   - a point of the PM10 curve is an integer in units of                 *)
(*     1/(100 * CurveDen), CurveDen = 24 * BandDen.                        *)
(* Dates are records [year, month, day] of the year 2024; the datetime     *)
(* object parsed from them is the ordinal day of that year.                *)
(***************************************************************************)
EXTENDS Integers, Sequences, FiniteSets, TLC

\* ------------------------------------------------------------------ bounds
MaxClicks == 2

\* --------------------------------------------------------- program constants
Steps == 7            \* range(7)
NoonHour == 12        \* hour = 12
Saturday == 5         \* day_of_week == 5
Sunday == 6           \* day_of_week == 6
CyclePeriod == 3      \* day_offset % 3

\* fixed-point scales
WfDen == 20           \* weekday_factor: 1.0 = 20/20, 0.9 = 18/20, 0.85 = 17/20
WcDen == 1000         \* weather_factor in thousandths
NfDen == 200          \* random_factor in 1/200: 0.985 = 197/200
UDen == 6             \* np.random.random() in sixths: U = u/6, u in 0..5
SinDen == 1000        \* np.sin in thousandths
MaDen == 3 ^ (Steps + 1)
FactorDen == WfDen * WcDen * NfDen

Sessions == {1, 2}

\* ------------------------------------------------------------ arithmetic
Abs(x) == IF x < 0 THEN -x ELSE x

\* n/d rounded to the nearest integer, ties away from zero (table entries).
RoundNearest(n, d) == IF n >= 0 THEN (2 * n + d) \div (2 * d)
                                ELSE -((2 * (-n) + d) \div (2 * d))

\* np.mean([a, b, c]) of three values in hundredths, in units 1/(100*MaDen).
Mean3Lags(a, b, c) == ((a + b + c) * MaDen) \div 3

\* np.mean([ma, lag, cur]): ma in units 1/(100*MaDen), lag and cur in hundredths.
Mean3Update(ma, lag, cur) == (ma + (lag + cur) * MaDen) \div 3

\* ---------------------------------------------------------------- calendar
DaysInMonth == <<31, 29, 31, 30, 31, 30, 31, 31, 30, 31, 30, 31>>

RECURSIVE DaysBefore(_)
DaysBefore(m) == IF m = 1 THEN 0 ELSE DaysBefore(m - 1) + DaysInMonth[m - 1]

\* datetime.strptime(start_date, '%Y-%m-%d'): the ordinal day of 2024.
Strptime(d) == DaysBefore(d.month) + d.day

\* start_date_obj + timedelta(days=day_offset)
PlusDays(ord, k) == ord + k

MonthOf(ord) == CHOOSE m \in 1..12 : DaysBefore(m) < ord /\ ord <= DaysBefore(m) + DaysInMonth[m]
DayOf(ord) == ord - DaysBefore(MonthOf(ord))

\* variant: isoweekday(), Monday = 1 .. Sunday = 7
Weekday_Iso(ord) == ((ord - 1) % 7) + 1

\* prediction_date.weekday(): Monday = 0 .. Sunday = 6; 2024-01-01 is a Monday.
Weekday(ord) == (ord - 1) % 7

\* prediction_date.strftime('%Y-%m-%d')
Strftime(ord) == [year |-> 2024, month |-> MonthOf(ord), day |-> DayOf(ord)]

\* ------------------------------------------------------- adjustment factors
\* variant: the two weekend factors exchanged
WeekdayFactor_Swapped(day_of_week) ==
    IF day_of_week = Saturday THEN 17
    ELSE IF day_of_week = Sunday THEN 18
    ELSE WfDen

\* weekday_factor (lines 967-971), numerator over WfDen.
WeekdayFactor(day_of_week) ==
    IF day_of_week = Saturday THEN 18
    ELSE IF day_of_week = Sunday THEN 17
    ELSE WfDen

\* np.sin(2 * np.pi * k / 3) for k = (day_offset % 3), in thousandths.
Sin3(k) == CASE k = 0 -> 0
             [] k = 1 -> 866
             [] k = 2 -> -866

\* variant: the cycle starts one day late
WeatherPhase_Shifted(day_offset) == (day_offset + 1) % CyclePeriod

\* weather_phase = (day_offset % 3) / 3.0, as the number of thirds.
WeatherPhase(day_offset) == day_offset % CyclePeriod

\* weather_factor = 1.0 + 0.08 * np.sin(2 * np.pi * weather_phase), over WcDen.
WeatherFactor(day_offset) ==
    WcDen + RoundNearest(8 * Sin3(WeatherPhase(day_offset)) * WcDen, 100 * SinDen)

\* variant: 0.3 for 0.03
RandomFactor_Tenfold(u) == NfDen + (30 * (2 * u - UDen) * NfDen) \div (200 * UDen)

\* random_factor = 1.0 + 0.03 * (U - 0.5) with U = u/UDen, over NfDen.
RandomFactor(u) == NfDen + (3 * (2 * u - UDen) * NfDen) \div (200 * UDen)

\* base_prediction * weekday_factor * weather_factor * random_factor (line 981),
\* exactly: whole + frac/FactorDen hundredths, with 0 <= frac < FactorDen.
AdjustedProduct(base, wf, wc, nf) ==
    LET a == base * wf * wc
        q == a \div FactorDen
        r == a % FactorDen
    IN  [whole |-> q * nf + (r * nf) \div FactorDen,
         frac  |-> (r * nf) % FactorDen]

\* variant: truncation to the hundredth below
Round2_Truncated(p) == p.whole

\* round(adjusted_prediction, 2) (line 984): to the nearest hundredth, ties to even.
Round2(p) ==
    IF 2 * p.frac < FactorDen THEN p.whole
    ELSE IF 2 * p.frac > FactorDen THEN p.whole + 1
    ELSE IF p.whole % 2 = 0 THEN p.whole ELSE p.whole + 1

\* ------------------------------------------------------------ feature vector
\* feature_values (lines 929-942).
FeatureValues(humidity, temperature, hour, day, month, day_of_week, cur, lag, ma) ==
    [n \in {"humidity", "temperature", "hour", "day", "month", "day_of_week",
            "pm_2_5", "pm_2_5_lag1h", "pm25_lag1h", "pm_2_5_lag_1_h",
            "pm_2_5_ma3h", "pm25_ma3h"} |->
        CASE n = "humidity" -> humidity
          [] n = "temperature" -> temperature
          [] n = "hour" -> hour
          [] n = "day" -> day
          [] n = "month" -> month
          [] n = "day_of_week" -> day_of_week
          [] n = "pm_2_5" -> cur
          [] n \in {"pm_2_5_lag1h", "pm25_lag1h", "pm_2_5_lag_1_h"} -> lag
          [] n \in {"pm_2_5_ma3h", "pm25_ma3h"} -> ma]

\* variant: a name missing from the map takes the humidity, not 0
Get_NoDefault(fv, name) == IF name \in DOMAIN fv THEN fv[name] ELSE fv["humidity"]

\* feature_values.get(name, 0)
Get(fv, name) == IF name \in DOMAIN fv THEN fv[name] ELSE 0

\* variant: the fallback columns in alphabetical order
FallbackColumns_Sorted == <<"day", "day_of_week", "hour", "humidity", "month", "pm_2_5",
                            "pm_2_5_lag1h", "pm_2_5_ma3h", "temperature">>

\* the column order of the fallback DataFrame (lines 950-960)
FallbackColumns == <<"humidity", "pm_2_5", "temperature", "hour", "day", "month",
                     "day_of_week", "pm_2_5_lag1h", "pm_2_5_ma3h">>

\* features (lines 945-960): the DataFrame's single row, as ordered columns.
BuildFeatures(schema, fv) ==
    IF schema # <<>>
    THEN [k \in 1..Len(schema) |-> [name |-> schema[k], value |-> Get(fv, schema[k])]]
    ELSE [k \in 1..Len(FallbackColumns) |->
            [name |-> FallbackColumns[k], value |-> fv[FallbackColumns[k]]]]

\* the value of the first column of a row named by one of names, 0 if there is none
Col(features, names) ==
    LET hits == {k \in 1..Len(features) : features[k].name \in names}
    IN  IF hits = {} THEN 0
        ELSE features[CHOOSE k \in hits : \A j \in hits : k <= j].value

\* --------------------------------------------------------------- predictor
\* model.predict(features)[0] (line 963).  The pickled model is an external
\* collaborator; two deterministic stand-ins that read the row by column name,
\* and stand-ins that raise on the rows of one weekday (Monday = 0) and
\* otherwise return what "blend" returns.
RejectedWeekday ==
    [rejects_mon |-> 0, rejects_tue |-> 1, rejects_wed |-> 2, rejects_thu |-> 3,
     rejects_fri |-> 4, rejects_sat |-> 5, rejects_sun |-> 6]

FragileKinds == DOMAIN RejectedWeekday

PredictorKinds == {"persistence", "blend", "rejects_sun"}

\* model.predict(features) raises
PredictRaises(kind, features) ==
    /\ kind \in FragileKinds
    /\ Col(features, {"day_of_week"}) = RejectedWeekday[kind]

Predict(kind, features) ==
    LET cur == Col(features, {"pm_2_5"})
        lag == Col(features, {"pm_2_5_lag1h", "pm25_lag1h", "pm_2_5_lag_1_h"})
        ma  == Col(features, {"pm_2_5_ma3h", "pm25_ma3h"})
        hum == Col(features, {"humidity"})
        tmp == Col(features, {"temperature"})
    IN  IF kind = "persistence" THEN cur
        ELSE (2 * cur + lag + ma \div MaDen) \div 4 + hum \div 10 + tmp \div 5

\* ------------------------------------------------------- rolling statistics
\* an absent form value (Python's None; the fields accept numbers >= 0 only)
None == -1

StatScale == 100      \* statistics in 1/100 of a hundredth

RECURSIVE SumSeq(_)
SumSeq(q) == IF q = <<>> THEN 0 ELSE q[1] + SumSeq(Tail(q))

RECURSIVE Dot(_, _)
Dot(q, w) == IF q = <<>> THEN 0 ELSE q[1] * w[1] + Dot(Tail(q), Tail(w))

\* all(v is not None for v in values)
AllPresent(values) == \A k \in 1..Len(values) : values[k] # None

\* np.mean(values) of values in hundredths, in units 1/(100*StatScale)
NpMean(values) == (SumSeq(values) * StatScale) \div Len(values)

\* np.average(values, weights=weights): sum(v*w) / sum(w), same units
NpAverage(values, weights) == (Dot(values, weights) * StatScale) \div SumSeq(weights)

\* n/d (n >= 0) rounded to the nearest integer, ties to the even one
RoundHalfEven(n, d) ==
    LET q == n \div d
        r == n % d
    IN  IF 2 * r < d THEN q
        ELSE IF 2 * r > d THEN q + 1
        ELSE IF q % 2 = 0 THEN q ELSE q + 1

\* f"{x:.2f}" of a statistic x: the hundredths the string shows
Format2(x) == RoundHalfEven(x, StatScale)

\* f"{np.mean(values):.2f}" (lines 880-881): the mean is formatted in one go,
\* so that a mean of three values is not rounded twice
FormatMean(values) == RoundHalfEven(SumSeq(values), Len(values))

\* "0.00"
ZeroText == 0

\* variant: the first weight 0.5
Weights_Heavy == <<50, 25, 20, 10, 5>>

\* weights = [0.4, 0.25, 0.2, 0.1, 0.05], in hundredths: line 1185 and line 1224
WeightsAverages == <<40, 25, 20, 10, 5>>
WeightsPrediction == <<40, 25, 20, 10, 5>>

\* variant: the guard of line 879 looks at the first field only
update_moving_average_FirstOnly(pm25_1d, pm25_2d, pm25_3d) ==
    IF pm25_1d # None
    THEN FormatMean(<<pm25_1d, pm25_2d, pm25_3d>>)
    ELSE ZeroText

\* update_moving_average (lines 878-882)
update_moving_average(pm25_1d, pm25_2d, pm25_3d) ==
    IF AllPresent(<<pm25_1d, pm25_2d, pm25_3d>>)
    THEN FormatMean(<<pm25_1d, pm25_2d, pm25_3d>>)
    ELSE ZeroText

\* variant: the 6-hour mean leaves out the 6-hour lag
RollMean6_Three(current, lag1, lag3, lag6) == NpMean(<<current, lag1, lag3>>)

\* the three statistics of lines 1178-1186 and of lines 1220-1225
RollMean6(current, lag1, lag3, lag6) == NpMean(<<current, lag1, lag3, lag6>>)
RollMean24(current, lag1, lag3, lag6, lag24) == NpMean(<<current, lag1, lag3, lag6, lag24>>)
Ewm12(current, lag1, lag3, lag6, lag24, weights) ==
    NpAverage(<<current, lag1, lag3, lag6, lag24>>, weights)

\* update_pm10_averages (lines 1174-1190); computed holds the three values
\* before they are formatted
update_pm10_averages(current, lag1, lag3, lag6, lag24) ==
    IF AllPresent(<<current, lag1, lag3, lag6, lag24>>)
    THEN LET roll_mean_6 == RollMean6(current, lag1, lag3, lag6)
             roll_mean_24 == RollMean24(current, lag1, lag3, lag6, lag24)
             weights == WeightsAverages
             ewm_12 == Ewm12(current, lag1, lag3, lag6, lag24, weights)
         IN  [computed |-> TRUE,
              roll_mean_6 |-> roll_mean_6, roll_mean_24 |-> roll_mean_24, ewm_12 |-> ewm_12,
              weights |-> weights,
              text |-> <<Format2(roll_mean_6), Format2(roll_mean_24), Format2(ewm_12)>>]
    ELSE [computed |-> FALSE,
          roll_mean_6 |-> 0, roll_mean_24 |-> 0, ewm_12 |-> 0,
          weights |-> <<>>,
          text |-> <<ZeroText, ZeroText, ZeroText>>]

\* --------------------------------------------------------------- PM10 track
HoursPerDay == 24     \* % 24, h / 24.0
CurvePoints == 25     \* range(25)
BandDen == 300        \* band factors in 1/300: 0.15 * (2/3) = 30/300
CurveDen == HoursPerDay * BandDen

\* feature_values of update_pm10_prediction (lines 1232-1248) for the State
\* values in and the locals computed before it; the timestamp is the number
\* of hours since 2024-01-01 00:00
Pm10FeatureValues(in, timestamp, day, month, day_of_week, roll_mean_6, roll_mean_24, ewm_12) ==
    [n \in {"timestamp", "humidity", "pm_10", "temperature", "hour", "day", "month",
            "day_of_week", "pm10_lag_1", "pm10_lag_3", "pm10_lag_6", "pm10_lag_24",
            "pm10_roll_mean_6", "pm10_roll_mean_24", "pm10_ewm_12"} |->
        CASE n = "timestamp" -> timestamp
          [] n = "humidity" -> in.humidity
          [] n = "pm_10" -> in.current_pm10
          [] n = "temperature" -> in.temperature
          [] n = "hour" -> in.hour
          [] n = "day" -> day
          [] n = "month" -> month
          [] n = "day_of_week" -> day_of_week
          [] n = "pm10_lag_1" -> in.pm10_lag_1
          [] n = "pm10_lag_3" -> in.pm10_lag_3
          [] n = "pm10_lag_6" -> in.pm10_lag_6
          [] n = "pm10_lag_24" -> in.pm10_lag_24
          [] n = "pm10_roll_mean_6" -> roll_mean_6
          [] n = "pm10_roll_mean_24" -> roll_mean_24
          [] n = "pm10_ewm_12" -> ewm_12]

\* the column order of the fallback DataFrame (lines 1256-1272)
Pm10FallbackColumns ==
    <<"timestamp", "humidity", "pm_10", "temperature", "hour", "day", "month",
      "day_of_week", "pm10_lag_1", "pm10_lag_3", "pm10_lag_6", "pm10_lag_24",
      "pm10_roll_mean_6", "pm10_roll_mean_24", "pm10_ewm_12">>

\* features (lines 1251-1272)
Pm10BuildFeatures(schema, fv) ==
    IF schema # <<>>
    THEN [k \in 1..Len(schema) |-> [name |-> schema[k], value |-> Get(fv, schema[k])]]
    ELSE [k \in 1..Len(Pm10FallbackColumns) |->
            [name |-> Pm10FallbackColumns[k], value |-> fv[Pm10FallbackColumns[k]]]]

\* features['timestamp'] (line 1275) raises KeyError if the row has no such column
HasTimestamp(features) == \E k \in 1..Len(features) : features[k].name = "timestamp"

\* pm10_model.predict(features)[0] (line 1278): deterministic stand-ins for
\* the pickled model; the first returns the current value, the second moves
\* away from it, the third raises on every call.
Pm10PredictorKinds == {"persistence", "trend", "raising"}

Pm10PredictRaises(kind, features) == kind = "raising"

Pm10Predict(kind, features) ==
    LET cur == Col(features, {"pm_10"})
        rm24 == Col(features, {"pm10_roll_mean_24"})
        hum == Col(features, {"humidity"})
    IN  IF kind = "persistence" THEN cur
        ELSE (cur + rm24 \div StatScale) \div 2 + 6 * hum

\* variant: alpha is (h - 1) / 24.0
Interpolate_OneBehind(current_pm10, prediction, h) ==
    HoursPerDay * current_pm10 + (prediction - current_pm10) * (h - 1)

\* current_pm10 + (prediction - current_pm10) * (h / 24.0), in units 1/(100*24)
Interpolate(current_pm10, prediction, h) ==
    HoursPerDay * current_pm10 + (prediction - current_pm10) * h

\* variant: the morning peak reaches hour 10
BandOf_Wide(current_hour) ==
    IF 6 <= current_hour /\ current_hour <= 10 THEN "morning"
    ELSE IF 13 <= current_hour /\ current_hour <= 16 THEN "afternoon"
    ELSE IF 18 <= current_hour /\ current_hour <= 21 THEN "evening"
    ELSE IF 0 <= current_hour /\ current_hour <= 5 THEN "night"
    ELSE "none"

\* the if/elif chain of lines 1343-1364: the branch taken for an hour
BandOf(current_hour) ==
    IF 6 <= current_hour /\ current_hour <= 9 THEN "morning"
    ELSE IF 13 <= current_hour /\ current_hour <= 16 THEN "afternoon"
    ELSE IF 18 <= current_hour /\ current_hour <= 21 THEN "evening"
    ELSE IF 0 <= current_hour /\ current_hour <= 5 THEN "night"
    ELSE "none"

\* variant: the factor keeps its full height over the whole band
Triangle_Flat(pct, centre2, width2, current_hour) == (pct * BandDen) \div 100

\* pct/100 * (1 - abs(current_hour - centre) / width) over BandDen, with
\* centre2 = 2*centre and width2 = 2*width
Triangle(pct, centre2, width2, current_hour) ==
    (pct * (width2 - Abs(2 * current_hour - centre2)) * BandDen) \div (100 * width2)

\* peak_factor / dip_factor of the branch (lines 1345, 1350, 1355, 1360)
BandFactor(band, current_hour) ==
    CASE band = "morning" -> Triangle(15, 15, 3, current_hour)
      [] band = "afternoon" -> Triangle(10, 29, 3, current_hour)
      [] band = "evening" -> Triangle(12, 39, 3, current_hour)
      [] band = "night" -> Triangle(20, 6, 6, current_hour)
      [] OTHER -> 0

\* variant: the afternoon dip added instead of subtracted
Modifier_NoDip(band, base_value, factor) ==
    CASE band \in {"morning", "evening", "afternoon"} -> base_value * factor
      [] band = "night" -> -(base_value * factor)
      [] OTHER -> 0

\* modifier (lines 1346, 1351, 1356, 1361, 1364), in units 1/(100*CurveDen)
Modifier(band, base_value, factor) ==
    CASE band \in {"morning", "evening"} -> base_value * factor
      [] band \in {"afternoon", "night"} -> -(base_value * factor)
      [] OTHER -> 0

\* variant: the hour of the offset is not wrapped at midnight
CurrentHour_NoWrap(start_hour, h) == start_hour + h

\* current_hour = (start_hour + h) % 24 (line 1335)
CurrentHour(start_hour, h) == (start_hour + h) % HoursPerDay

\* one iteration of the second loop (lines 1335-1368)
DiurnalPoint(current_pm10, prediction, start_hour, h) ==
    LET current_hour == CurrentHour(start_hour, h)
        base_value == Interpolate(current_pm10, prediction, h)
        band == BandOf(current_hour)
        factor == BandFactor(band, current_hour)
        modifier == Modifier(band, base_value, factor)
    IN  [h |-> h, current_hour |-> current_hour, base_value |-> base_value,
         band |-> band, factor |-> factor, modifier |-> modifier,
         adjusted_value |-> base_value * BandDen + modifier]

\* the first loop (lines 1319-1324): pm10_values after it, in units 1/(100*CurveDen)
FirstPass(current_pm10, prediction) ==
    [k \in 1..CurvePoints |-> Interpolate(current_pm10, prediction, k - 1) * BandDen]

\* the points of the second loop (lines 1334-1368)
DiurnalPoints(current_pm10, prediction, start_hour) ==
    [k \in 1..CurvePoints |-> DiurnalPoint(current_pm10, prediction, start_hour, k - 1)]

\* variant: line 1327 missing, the second loop appends to the first list
SecondPass_Appended(first, points) ==
    first \o [k \in 1..Len(points) |-> points[k].adjusted_value]

\* pm10_values = [] (line 1327) and the appends of line 1368
SecondPass(first, points) == [k \in 1..Len(points) |-> points[k].adjusted_value]

\* ---- the annotation search (lines 1404-1411) over pm10_values, offsets 0..24
RECURSIVE SeqMax(_)
SeqMax(q) == IF Len(q) = 1 THEN q[1]
             ELSE LET m == SeqMax(Tail(q)) IN IF q[1] >= m THEN q[1] ELSE m

RECURSIVE SeqMin(_)
SeqMin(q) == IF Len(q) = 1 THEN q[1]
             ELSE LET m == SeqMin(Tail(q)) IN IF q[1] <= m THEN q[1] ELSE m

Max2(a, b) == IF a >= b THEN a ELSE b
Min2(a, b) == IF a <= b THEN a ELSE b

\* variant: the slice ends at min(25, i + 3), so that it can hold offset 24
Neighbourhood_Closed(values, i) == SubSeq(values, Max2(0, i - 2) + 1, Min2(25, i + 3))

\* pm10_values[max(0, i-2):min(24, i+3)]: the offsets max(0, i-2) up to, and
\* without, min(24, i+3)
Neighbourhood(values, i) == SubSeq(values, Max2(0, i - 2) + 1, Min2(24, i + 3))

\* next((i for i in range(25) if ...), None)
FirstOffset(hits) == IF hits = {} THEN None ELSE CHOOSE i \in hits : \A j \in hits : i <= j

\* the offsets of range(25) whose hour lies in lo..hi
OffsetsIn(start_hour, lo, hi) ==
    {i \in 0..(CurvePoints - 1) :
        lo <= (start_hour + i) % HoursPerDay /\ (start_hour + i) % HoursPerDay <= hi}

PeakIdx(values, start_hour, lo, hi) ==
    FirstOffset({i \in OffsetsIn(start_hour, lo, hi) :
                    values[i + 1] = SeqMax(Neighbourhood(values, i))})

DipIdx(values, start_hour, lo, hi) ==
    FirstOffset({i \in OffsetsIn(start_hour, lo, hi) :
                    values[i + 1] = SeqMin(Neighbourhood(values, i))})

\* -------------------------------------------------------------------- state
VARIABLES
    model,              \* the loaded 7-day predictor (module level, line 11)
    expected_features,  \* its feature names, <<>> if it has none (lines 28-30)
    random_source,      \* "numpy" (np.random.random, any value next), "seeded"
                        \* (np.random.random with a known stream) or "stub"
                        \* (patched to return 0.5)
    rng_calls,          \* the calls of np.random.random() made by the process so
                        \* far, counted when the stream is known
    n_clicks,           \* per session: the click count of predict-7d-button
    pc,                 \* per session: where the callback invocation is
    inputs,             \* per session: the State values the invocation was called with
    start_date_obj,     \* per session, locals of update_7day_prediction from here on
    day_offset,
    pm25_current,
    pm25_lag1d,
    pm25_ma3d,
    predictions,
    dates,
    steps,              \* per session: the iterations done by the current invocation
    out,                \* per session: what the last invocation returned
    form7,              \* per session: the three lag fields of the 7-day form
    ma3_display,        \* per session: the children of pm25-3d-avg-7d
    form10,             \* per session: the five PM10 fields of the PM10 form
    avg_display,        \* per session: the children of pm10-roll-mean-6, -24, pm10-ewm-12
    pm10_model,             \* the loaded PM10 predictor, "none" if loading failed (line 16)
    pm10_model_loaded,      \* lines 17 and 25
    pm10_expected_features, \* its feature names, <<>> if it has none (lines 19-21)
    pm10_clicks,            \* per session: the click count of predict-pm10-button
    pm10_pc,                \* per session: "fresh" before Dash's first call, then "returned"
    pm10_inputs,            \* per session: the State values of the last invocation
    pm10_run,               \* per session: the locals the last invocation computed
    pm10_out,               \* per session: what the last invocation returned
    pm10_errors             \* per session: how many invocations ended in the except clause

vars7 == <<model, expected_features, random_source, rng_calls, n_clicks, pc, inputs,
           start_date_obj, day_offset, pm25_current, pm25_lag1d, pm25_ma3d,
           predictions, dates, steps, out>>

displayvars == <<form7, ma3_display, form10, avg_display>>

vars10 == <<pm10_model, pm10_model_loaded, pm10_expected_features, pm10_clicks,
            pm10_pc, pm10_inputs, pm10_run, pm10_out, pm10_errors>>

vars == <<vars7, displayvars, vars10>>

globals == <<model, expected_features, random_source>>

\* a model fitted with feature names (its lag and average columns use the
\* second spelling of feature_values)
TrainedSchema == <<"humidity", "temperature", "hour", "day", "month", "day_of_week",
                   "pm_2_5", "pm25_lag1h", "pm25_ma3h", "wind_speed">>

Schemas == {<<>>, TrainedSchema}

\* the values np.random.random() may return, in sixths
UValues == {0, 3, 5}
UHalf == UDen \div 2

Draws(source) == IF source = "stub" THEN {UHalf} ELSE UValues

\* np.random.random() draws from the one generator of the module numpy.random,
\* which every caller in the process advances (line 978): the value of the
\* n-th call of the process (n from 0), for a generator state in which the
\* stream is 0, 5/6, 0.5, 0.5, ...
Stream(n) == IF n = 0 THEN 0 ELSE IF n = 1 THEN 5 ELSE UHalf

\* the values the next call may return, and the count of calls after it
DrawsAt(source, n) == IF source = "seeded" THEN {Stream(n)} ELSE Draws(source)
CallsAfter(source, n) == IF source = "seeded" THEN n + 1 ELSE n

Date(m, d) == [year |-> 2024, month |-> m, day |-> d]

\* what the user may have entered when clicking (values in hundredths)
InputChoices ==
    { [humidity |-> 60, temperature |-> 25, start_date |-> Date(1, 5),
       pm25_1d_ago |-> 2000, pm25_2d_ago |-> 2000, pm25_3d_ago |-> 2000],
      [humidity |-> 45, temperature |-> 31, start_date |-> Date(2, 25),
       pm25_1d_ago |-> 3550, pm25_2d_ago |-> 2800, pm25_3d_ago |-> 1225],
      [humidity |-> 60, temperature |-> 25, start_date |-> Date(1, 5),
       pm25_1d_ago |-> 2000, pm25_2d_ago |-> None, pm25_3d_ago |-> 2000] }

NoInputs == [humidity |-> 0, temperature |-> 0, start_date |-> Date(1, 1),
             pm25_1d_ago |-> 0, pm25_2d_ago |-> 0, pm25_3d_ago |-> 0]

EmptyResult == [kind |-> "empty", predictions |-> <<>>, dates |-> <<>>]
NoResult == [kind |-> "none", predictions |-> <<>>, dates |-> <<>>]

\* the values a user may leave in the lag fields of the two forms (hundredths)
Form7Values == [pm25_1d |-> {None, 2000, 3550}, pm25_2d |-> {None, 2000, 2800},
                pm25_3d |-> {None, 2000, 1225}]

Form10Values == [current |-> {None, 3000, 1000, 3001}, lag1 |-> {None, 2800, 1000},
                 lag3 |-> {None, 2500, 1000}, lag6 |-> {None, 2200, 1000},
                 lag24 |-> {None, 2800, 1000}]

\* the values of the layout (value=20 three times; 30, 28, 25, 22, 28)
Form7Default == [pm25_1d |-> 2000, pm25_2d |-> 2000, pm25_3d |-> 2000]
Form10Default == [current |-> 3000, lag1 |-> 2800, lag3 |-> 2500, lag6 |-> 2200,
                  lag24 |-> 2800]

\* the two display callbacks applied to a form
MovingAverageOf(f) == update_moving_average(f.pm25_1d, f.pm25_2d, f.pm25_3d)
Pm10AveragesOf(f) == update_pm10_averages(f.current, f.lag1, f.lag3, f.lag6, f.lag24)

\* the page as laid out: the display callbacks have run on the default values
InitDisplay ==
    /\ form7 = [s \in Sessions |-> Form7Default]
    /\ ma3_display = [s \in Sessions |-> MovingAverageOf(Form7Default)]
    /\ form10 = [s \in Sessions |-> Form10Default]
    /\ avg_display = [s \in Sessions |-> Pm10AveragesOf(Form10Default)]

\* ---- the PM10 track's deployment and inputs
\* a PM10 model fitted with feature names, one of them unknown to feature_values
Pm10TrainedSchema ==
    <<"timestamp", "humidity", "temperature", "hour", "day_of_week", "pm_10",
      "pm10_lag_1", "pm10_lag_24", "pm10_roll_mean_24", "pm10_ewm_12", "wind_speed">>

\* a PM10 model fitted without the timestamp column
Pm10NoTimestampSchema == <<"humidity", "pm_10", "pm10_lag_1", "pm10_roll_mean_24">>

Pm10Schemas == {<<>>, Pm10TrainedSchema, Pm10NoTimestampSchema}

\* what lines 14-25 may leave behind: a loaded model with or without feature
\* names, or no model
Pm10Deployments ==
    [model : Pm10PredictorKinds, loaded : {TRUE}, schema : Pm10Schemas]
        \cup {[model |-> "none", loaded |-> FALSE, schema |-> <<>>]}

Pm10DefaultDeployment == [model |-> "persistence", loaded |-> TRUE, schema |-> <<>>]

\* the PM10 values a user may have entered when clicking (hundredths)
Pm10LagChoices ==
    { [current_pm10 |-> 3000, pm10_lag_1 |-> 2800, pm10_lag_3 |-> 2500,
       pm10_lag_6 |-> 2200, pm10_lag_24 |-> 2800],
      [current_pm10 |-> 1000, pm10_lag_1 |-> 1000, pm10_lag_3 |-> 1000,
       pm10_lag_6 |-> 1000, pm10_lag_24 |-> 1000],
      [current_pm10 |-> 3000, pm10_lag_1 |-> 2800, pm10_lag_3 |-> 2500,
       pm10_lag_6 |-> 2200, pm10_lag_24 |-> None],
      [current_pm10 |-> None, pm10_lag_1 |-> 2800, pm10_lag_3 |-> None,
       pm10_lag_6 |-> 2200, pm10_lag_24 |-> 2800],
      [current_pm10 |-> 100, pm10_lag_1 |-> 2800, pm10_lag_3 |-> 2500,
       pm10_lag_6 |-> 2200, pm10_lag_24 |-> 2800],
      [current_pm10 |-> 0, pm10_lag_1 |-> 0, pm10_lag_3 |-> 0,
       pm10_lag_6 |-> 0, pm10_lag_24 |-> 0] }

Pm10InputChoices(hours) ==
    { [humidity |-> 60, temperature |-> 25, date |-> Date(1, 5), hour |-> h,
       current_pm10 |-> l.current_pm10, pm10_lag_1 |-> l.pm10_lag_1,
       pm10_lag_3 |-> l.pm10_lag_3, pm10_lag_6 |-> l.pm10_lag_6,
       pm10_lag_24 |-> l.pm10_lag_24] : h \in hours, l \in Pm10LagChoices }

Pm10NoInputs == [humidity |-> 0, temperature |-> 0, date |-> Date(1, 1), hour |-> 0,
                 current_pm10 |-> 0, pm10_lag_1 |-> 0, pm10_lag_3 |-> 0,
                 pm10_lag_6 |-> 0, pm10_lag_24 |-> 0]

\* the locals of an invocation that computed nothing
Pm10NoRun == [reached |-> "none", pm10_roll_mean_6 |-> 0, pm10_roll_mean_24 |-> 0,
              weights |-> <<>>, pm10_ewm_12 |-> 0, features |-> <<>>,
              prediction |-> 0, first_pass |-> <<>>, points |-> <<>>,
              pm10_values |-> <<>>, morning_peak_idx |-> None,
              afternoon_dip_idx |-> None, evening_peak_idx |-> None]

Pm10Result(kind, prediction, values) ==
    [kind |-> kind, prediction |-> prediction, pm10_values |-> values]

InitPm10(deployments) ==
    /\ \E d \in deployments :
        /\ pm10_model = d.model
        /\ pm10_model_loaded = d.loaded
        /\ pm10_expected_features = d.schema
    /\ pm10_clicks = [s \in Sessions |-> 0]
    /\ pm10_pc = [s \in Sessions |-> "fresh"]
    /\ pm10_inputs = [s \in Sessions |-> Pm10NoInputs]
    /\ pm10_run = [s \in Sessions |-> Pm10NoRun]
    /\ pm10_out = [s \in Sessions |-> Pm10Result("none", 0, <<>>)]
    /\ pm10_errors = [s \in Sessions |-> 0]

Init7(source, kinds, schemas) ==
    /\ model \in kinds
    /\ expected_features \in schemas
    /\ random_source = source
    /\ rng_calls = 0
    /\ n_clicks = [s \in Sessions |-> 0]
    /\ pc = [s \in Sessions |-> "fresh"]
    /\ inputs = [s \in Sessions |-> NoInputs]
    /\ start_date_obj = [s \in Sessions |-> 0]
    /\ day_offset = [s \in Sessions |-> 0]
    /\ pm25_current = [s \in Sessions |-> 0]
    /\ pm25_lag1d = [s \in Sessions |-> 0]
    /\ pm25_ma3d = [s \in Sessions |-> 0]
    /\ predictions = [s \in Sessions |-> <<>>]
    /\ dates = [s \in Sessions |-> <<>>]
    /\ steps = [s \in Sessions |-> <<>>]
    /\ out = [s \in Sessions |-> NoResult]

\* the 7-day track's specifications fix the PM10 deployment
InitWith(source) ==
    /\ InitDisplay
    /\ Init7(source, PredictorKinds, Schemas)
    /\ InitPm10({Pm10DefaultDeployment})

Init == InitWith("numpy")
InitStub == InitWith("stub")

\* np.mean of line 903 adds the three values: it raises TypeError if one is None
LagsPresent(in) == AllPresent(<<in.pm25_1d_ago, in.pm25_2d_ago, in.pm25_3d_ago>>)

locals == <<start_date_obj, day_offset, pm25_current, pm25_lag1d, pm25_ma3d,
            predictions, dates, steps>>

\* ------------------------------------------------------------------ actions
\* variant: the guard of line 898 reads n_clicks >= 0, the layout call enters
\* the loop on the form's initial values
InitialCall_Loops(s) ==
    /\ pc[s] = "fresh"
    /\ n_clicks[s] = 0
    /\ \E in \in InputChoices :
        /\ LagsPresent(in)
        /\ inputs' = [inputs EXCEPT ![s] = in]
        /\ start_date_obj' = [start_date_obj EXCEPT ![s] = Strptime(in.start_date)]
        /\ pm25_current' = [pm25_current EXCEPT ![s] = in.pm25_1d_ago]
        /\ pm25_lag1d' = [pm25_lag1d EXCEPT ![s] = in.pm25_2d_ago]
        /\ pm25_ma3d' = [pm25_ma3d EXCEPT ![s] =
                Mean3Lags(in.pm25_1d_ago, in.pm25_2d_ago, in.pm25_3d_ago)]
    /\ pc' = [pc EXCEPT ![s] = "loop"]
    /\ UNCHANGED <<globals, rng_calls, n_clicks, day_offset, predictions, dates, steps, out>>

\* The call Dash makes when the page is laid out, n_clicks = 0:
\* `if n_clicks > 0` fails and line 1161 returns html.Div(), {}.
InitialCall(s) ==
    /\ pc[s] = "fresh"
    /\ n_clicks[s] = 0
    /\ out' = [out EXCEPT ![s] = EmptyResult]
    /\ pc' = [pc EXCEPT ![s] = "returned"]
    /\ UNCHANGED <<globals, rng_calls, n_clicks, inputs, locals>>

\* variant: the lagged value starts from the 3-day-ago input
StartLag_FromThird(in) == in.pm25_3d_ago

\* variant: the series of the previous invocation is kept
StartPredictions_Kept(old) == old

\* variant: the dates of the previous invocation are kept
StartDates_Kept(old) == old

\* the values of the locals at the loop's entry (lines 903-912)
StartCurrent(in) == in.pm25_1d_ago
StartLag(in) == in.pm25_2d_ago
StartMa(in) == Mean3Lags(in.pm25_1d_ago, in.pm25_2d_ago, in.pm25_3d_ago)
StartPredictions(old) == <<>>
StartDates(old) == <<>>

\* A click with a lag field left empty: line 900 runs, line 903 raises TypeError,
\* which nothing in update_7day_prediction catches.  Dash answers the request
\* with an error and the page keeps what it showed before.
TriggerRaises(s) ==
    /\ pc[s] \in {"returned", "raised"}
    /\ n_clicks[s] < MaxClicks
    /\ \E in \in InputChoices :
        /\ ~LagsPresent(in)
        /\ inputs' = [inputs EXCEPT ![s] = in]
        /\ start_date_obj' = [start_date_obj EXCEPT ![s] = Strptime(in.start_date)]
    /\ n_clicks' = [n_clicks EXCEPT ![s] = @ + 1]
    /\ pm25_current' = [pm25_current EXCEPT ![s] = 0]
    /\ pm25_lag1d' = [pm25_lag1d EXCEPT ![s] = 0]
    /\ pm25_ma3d' = [pm25_ma3d EXCEPT ![s] = 0]
    /\ predictions' = [predictions EXCEPT ![s] = <<>>]
    /\ dates' = [dates EXCEPT ![s] = <<>>]
    /\ steps' = [steps EXCEPT ![s] = <<>>]
    /\ day_offset' = [day_offset EXCEPT ![s] = 0]
    /\ pc' = [pc EXCEPT ![s] = "raised"]
    /\ UNCHANGED <<globals, rng_calls, out>>

\* A click on predict-7d-button: Dash calls update_7day_prediction with the
\* new n_clicks and the form's State values; lines 896-912 run up to the loop.
Trigger(s) ==
    /\ pc[s] \in {"returned", "raised"}
    /\ n_clicks[s] < MaxClicks
    /\ \E in \in InputChoices :
        /\ LagsPresent(in)
        /\ inputs' = [inputs EXCEPT ![s] = in]
        /\ start_date_obj' = [start_date_obj EXCEPT ![s] = Strptime(in.start_date)]
        /\ pm25_current' = [pm25_current EXCEPT ![s] = StartCurrent(in)]
        /\ pm25_lag1d' = [pm25_lag1d EXCEPT ![s] = StartLag(in)]
        /\ pm25_ma3d' = [pm25_ma3d EXCEPT ![s] = StartMa(in)]
    /\ n_clicks' = [n_clicks EXCEPT ![s] = @ + 1]
    /\ predictions' = [predictions EXCEPT ![s] = StartPredictions(@)]
    /\ dates' = [dates EXCEPT ![s] = StartDates(@)]
    /\ steps' = [steps EXCEPT ![s] = <<>>]
    /\ day_offset' = [day_offset EXCEPT ![s] = 0]
    /\ out' = [out EXCEPT ![s] = NoResult]
    /\ pc' = [pc EXCEPT ![s] = "loop"]
    /\ UNCHANGED <<globals, rng_calls>>

\* variant: range(6)
LoopContinues_Short(k) == k < Steps - 1

\* the loop's condition: for day_offset in range(7)
LoopContinues(k) == k < Steps

\* prediction_date (line 917)
PredictionDate(start, k) == PlusDays(start, k)

\* variants: the two assignments of lines 989-990 in the other order (the
\* lagged value then takes the new prediction), and no feedback of the prediction
NextLag_AfterCurrent(cur, lag, adjusted) == adjusted
NextCurrent_NoFeedback(cur, lag, adjusted) == cur

\* the state update closing an iteration (lines 989-991)
NextLag(cur, lag, adjusted) == cur
NextCurrent(cur, lag, adjusted) == adjusted
NextMa(ma, newLag, newCur) == Mean3Update(ma, newLag, newCur)

\* One iteration of the loop (lines 915-991).
Step(s) ==
    /\ pc[s] = "loop"
    /\ LoopContinues(day_offset[s])
    /\ \E u \in DrawsAt(random_source, rng_calls) :
        LET prediction_date == PredictionDate(start_date_obj[s], day_offset[s])
            hour == NoonHour
            day == DayOf(prediction_date)
            month == MonthOf(prediction_date)
            day_of_week == Weekday(prediction_date)
            feature_values == FeatureValues(inputs[s].humidity, inputs[s].temperature,
                                            hour, day, month, day_of_week,
                                            pm25_current[s], pm25_lag1d[s], pm25_ma3d[s])
            features == BuildFeatures(expected_features, feature_values)
            base_prediction == Predict(model, features)
            weekday_factor == WeekdayFactor(day_of_week)
            weather_factor == WeatherFactor(day_offset[s])
            random_factor == RandomFactor(u)
            adjusted_prediction ==
                Round2(AdjustedProduct(base_prediction, weekday_factor,
                                       weather_factor, random_factor))
            newLag == NextLag(pm25_current[s], pm25_lag1d[s], adjusted_prediction)
            newCur == NextCurrent(pm25_current[s], pm25_lag1d[s], adjusted_prediction)
        IN  /\ ~PredictRaises(model, features)
            /\ dates' = [dates EXCEPT ![s] = Append(@, Strftime(prediction_date))]
            /\ predictions' = [predictions EXCEPT ![s] = Append(@, adjusted_prediction)]
            /\ pm25_lag1d' = [pm25_lag1d EXCEPT ![s] = newLag]
            /\ pm25_current' = [pm25_current EXCEPT ![s] = newCur]
            /\ pm25_ma3d' = [pm25_ma3d EXCEPT ![s] = NextMa(pm25_ma3d[s], newLag, newCur)]
            /\ steps' = [steps EXCEPT ![s] = Append(@,
                    [day_offset |-> day_offset[s],
                     day_of_week |-> day_of_week,
                     current |-> pm25_current[s],
                     lag |-> pm25_lag1d[s],
                     ma |-> pm25_ma3d[s],
                     features |-> features,
                     base_prediction |-> base_prediction,
                     weekday_factor |-> weekday_factor,
                     weather_factor |-> weather_factor,
                     u |-> u,
                     random_factor |-> random_factor,
                     adjusted_prediction |-> adjusted_prediction])]
    /\ day_offset' = [day_offset EXCEPT ![s] = @ + 1]
    /\ rng_calls' = CallsAfter(random_source, rng_calls)
    /\ UNCHANGED <<globals, n_clicks, pc, inputs, start_date_obj, out>>

\* An iteration in which model.predict raises (line 963): nothing in
\* update_7day_prediction catches it, the exception leaves the callback and
\* Dash answers the request with an error; no value is returned.  The locals
\* are kept as they were when the frame was left.
StepRaises(s) ==
    /\ pc[s] = "loop"
    /\ LoopContinues(day_offset[s])
    /\ LET prediction_date == PredictionDate(start_date_obj[s], day_offset[s])
           feature_values == FeatureValues(inputs[s].humidity, inputs[s].temperature,
                                           NoonHour, DayOf(prediction_date),
                                           MonthOf(prediction_date),
                                           Weekday(prediction_date),
                                           pm25_current[s], pm25_lag1d[s], pm25_ma3d[s])
       IN  PredictRaises(model, BuildFeatures(expected_features, feature_values))
    /\ pc' = [pc EXCEPT ![s] = "raised"]
    /\ UNCHANGED <<globals, rng_calls, n_clicks, inputs, locals, out>>

\* The loop is exhausted: the result and the figure are built from dates and
\* predictions and returned (lines 993-1159).
Return(s) ==
    /\ pc[s] = "loop"
    /\ ~LoopContinues(day_offset[s])
    /\ out' = [out EXCEPT ![s] = [kind |-> "series",
                                  predictions |-> predictions[s],
                                  dates |-> dates[s]]]
    /\ pc' = [pc EXCEPT ![s] = "returned"]
    /\ UNCHANGED <<globals, rng_calls, n_clicks, inputs, locals>>

update_7day_prediction(s) ==
    /\ \/ InitialCall(s)
       \/ Trigger(s)
       \/ TriggerRaises(s)
       \/ Step(s)
       \/ StepRaises(s)
       \/ Return(s)
    /\ UNCHANGED <<displayvars, vars10>>

\* one browser session, the random source as in the program
Next == \E s \in {1} : update_7day_prediction(s)
Spec == Init /\ [][Next]_vars

\* two sessions served by the same process, the random source stubbed at 0.5
NextStub == \E s \in Sessions : update_7day_prediction(s)
SpecStub == InitStub /\ [][NextStub]_vars

\* ------------------------------------------------------- display callbacks
\* The user changes one lag field of the 7-day form: Dash calls
\* update_moving_average with the three fields and shows what it returns.
EditForm7(s) ==
    /\ \E k \in DOMAIN Form7Values : \E v \in Form7Values[k] :
        LET f == [form7[s] EXCEPT ![k] = v]
        IN  /\ v # form7[s][k]
            /\ form7' = [form7 EXCEPT ![s] = f]
            /\ ma3_display' = [ma3_display EXCEPT ![s] = MovingAverageOf(f)]
    /\ UNCHANGED <<vars7, vars10, form10, avg_display>>

\* The user changes one PM10 field of the PM10 form: Dash calls
\* update_pm10_averages with the five fields and shows what it returns.
EditForm10(s) ==
    /\ \E k \in DOMAIN Form10Values : \E v \in Form10Values[k] :
        LET f == [form10[s] EXCEPT ![k] = v]
        IN  /\ v # form10[s][k]
            /\ form10' = [form10 EXCEPT ![s] = f]
            /\ avg_display' = [avg_display EXCEPT ![s] = Pm10AveragesOf(f)]
    /\ UNCHANGED <<vars7, vars10, form7, ma3_display>>

\* one session editing the two forms, no forecast triggered
NextStats == \E s \in {1} : EditForm7(s) \/ EditForm10(s)
SpecStats == Init /\ [][NextStats]_vars

\* -------------------------------------------------- update_pm10_prediction
\* the five PM10 values of an invocation, in the order the code lists them
Pm10Lags(in) ==
    <<in.current_pm10, in.pm10_lag_1, in.pm10_lag_3, in.pm10_lag_6, in.pm10_lag_24>>

\* the hours from 2024-01-01 00:00 to current_time (lines 1228-1229)
Timestamp(date_obj, hour) == (date_obj - 1) * HoursPerDay + hour

\* the statistics and the row of the try block (lines 1212-1272)
Pm10Stats(in) ==
    [pm10_roll_mean_6 |->
        RollMean6(in.current_pm10, in.pm10_lag_1, in.pm10_lag_3, in.pm10_lag_6),
     pm10_roll_mean_24 |->
        RollMean24(in.current_pm10, in.pm10_lag_1, in.pm10_lag_3, in.pm10_lag_6,
                   in.pm10_lag_24),
     weights |-> WeightsPrediction,
     pm10_ewm_12 |->
        Ewm12(in.current_pm10, in.pm10_lag_1, in.pm10_lag_3, in.pm10_lag_6,
              in.pm10_lag_24, WeightsPrediction)]

Pm10Features(schema, in) ==
    LET date_obj == Strptime(in.date)
        st == Pm10Stats(in)
        fv == Pm10FeatureValues(in, Timestamp(date_obj, in.hour), DayOf(date_obj),
                                MonthOf(date_obj), Weekday(date_obj),
                                st.pm10_roll_mean_6, st.pm10_roll_mean_24, st.pm10_ewm_12)
    IN  Pm10BuildFeatures(schema, fv)

\* How far the try block of lines 1210-1535 gets: np.mean and np.average
\* (lines 1220-1225) raise TypeError on None, features['timestamp'] (line
\* 1275) raises KeyError, predict (line 1278) may raise; otherwise the block
\* runs to its return.
Pm10Reached(kind, schema, in) ==
    IF ~AllPresent(SubSeq(Pm10Lags(in), 1, 4)) THEN "line 1220"
    ELSE IF ~AllPresent(Pm10Lags(in)) THEN "line 1221"
    ELSE IF ~HasTimestamp(Pm10Features(schema, in)) THEN "line 1275"
    ELSE IF Pm10PredictRaises(kind, Pm10Features(schema, in)) THEN "line 1278"
    ELSE "return"

\* The locals of the try block when it stops at reached.
Pm10TryBlock(kind, schema, in) ==
    LET reached == Pm10Reached(kind, schema, in)
        st == Pm10Stats(in)
        features == Pm10Features(schema, in)
        prediction == Pm10Predict(kind, features)
        first == FirstPass(in.current_pm10, prediction)
        points == DiurnalPoints(in.current_pm10, prediction, in.hour)
        values == SecondPass(first, points)
    IN  CASE reached = "line 1220" -> [Pm10NoRun EXCEPT !.reached = reached]
          [] reached = "line 1221" ->
                [Pm10NoRun EXCEPT !.reached = reached,
                                  !.pm10_roll_mean_6 = st.pm10_roll_mean_6]
          [] reached \in {"line 1275", "line 1278"} ->
                [Pm10NoRun EXCEPT !.reached = reached,
                                  !.pm10_roll_mean_6 = st.pm10_roll_mean_6,
                                  !.pm10_roll_mean_24 = st.pm10_roll_mean_24,
                                  !.weights = st.weights,
                                  !.pm10_ewm_12 = st.pm10_ewm_12,
                                  !.features = features]
          [] OTHER ->
                [reached |-> reached,
                 pm10_roll_mean_6 |-> st.pm10_roll_mean_6,
                 pm10_roll_mean_24 |-> st.pm10_roll_mean_24,
                 weights |-> st.weights, pm10_ewm_12 |-> st.pm10_ewm_12,
                 features |-> features, prediction |-> prediction,
                 first_pass |-> first, points |-> points, pm10_values |-> values,
                 morning_peak_idx |-> PeakIdx(values, in.hour, 6, 9),
                 afternoon_dip_idx |-> DipIdx(values, in.hour, 13, 16),
                 evening_peak_idx |-> PeakIdx(values, in.hour, 18, 21)]

\* the hours of pm10-time-picker (options range(24)), and two of them
AllHours == 0..(HoursPerDay - 1)
SomeHours == {7, 10}
OneHour == {7}

\* the hours a session may click at: its first click at any of hours, its
\* later clicks at those of 07:00 and 10:00 that are among hours
HoursAt(s, hours) == IF pm10_clicks[s] = 0 THEN hours ELSE hours \cap SomeHours

\* variant: the exception leaves the callback and the page keeps what it showed
Pm10ErrorResult_Kept(old) == old

\* error_message, {} (lines 1537-1558) in place of the result shown before
Pm10ErrorResult(old) == Pm10Result("error", 0, <<>>)

\* The call Dash makes when the page is laid out, n_clicks = 0: both guards
\* fail and line 1583 returns html.Div(), {}.
Pm10InitialCall(s) ==
    /\ pm10_pc[s] = "fresh"
    /\ pm10_clicks[s] = 0
    /\ pm10_out' = [pm10_out EXCEPT ![s] = Pm10Result("empty", 0, <<>>)]
    /\ pm10_pc' = [pm10_pc EXCEPT ![s] = "returned"]
    /\ UNCHANGED <<pm10_model, pm10_model_loaded, pm10_expected_features,
                   pm10_clicks, pm10_inputs, pm10_run, pm10_errors>>

\* A click on predict-pm10-button while the model is loaded and the try block
\* runs to line 1535: the result names the prediction, the figure plots
\* pm10_values.
Pm10Returns(s, hours) ==
    /\ pm10_pc[s] = "returned"
    /\ pm10_clicks[s] < MaxClicks
    /\ pm10_model_loaded
    /\ \E in \in Pm10InputChoices(HoursAt(s, hours)) :
        LET run == Pm10TryBlock(pm10_model, pm10_expected_features, in)
        IN  /\ Pm10Reached(pm10_model, pm10_expected_features, in) = "return"
            /\ pm10_inputs' = [pm10_inputs EXCEPT ![s] = in]
            /\ pm10_run' = [pm10_run EXCEPT ![s] = run]
            /\ pm10_out' = [pm10_out EXCEPT ![s] =
                    Pm10Result("curve", run.prediction, run.pm10_values)]
    /\ pm10_clicks' = [pm10_clicks EXCEPT ![s] = @ + 1]
    /\ UNCHANGED <<pm10_model, pm10_model_loaded, pm10_expected_features, pm10_pc,
                   pm10_errors>>

\* A click while the model is loaded and the try block raises: the except
\* clause of lines 1537-1558 returns the "Prediction Error" message and {}.
Pm10Raises(s, hours) ==
    /\ pm10_pc[s] = "returned"
    /\ pm10_clicks[s] < MaxClicks
    /\ pm10_model_loaded
    /\ \E in \in Pm10InputChoices(HoursAt(s, hours)) :
        LET run == Pm10TryBlock(pm10_model, pm10_expected_features, in)
        IN  /\ Pm10Reached(pm10_model, pm10_expected_features, in) # "return"
            /\ pm10_inputs' = [pm10_inputs EXCEPT ![s] = in]
            /\ pm10_run' = [pm10_run EXCEPT ![s] = run]
            /\ pm10_out' = [pm10_out EXCEPT ![s] = Pm10ErrorResult(@)]
    /\ pm10_clicks' = [pm10_clicks EXCEPT ![s] = @ + 1]
    /\ pm10_errors' = [pm10_errors EXCEPT ![s] = @ + 1]
    /\ UNCHANGED <<pm10_model, pm10_model_loaded, pm10_expected_features, pm10_pc>>

\* A click while no model is loaded: the elif of line 1561 returns the
\* "Model Not Loaded" message and {}.
Pm10Unavailable(s, hours) ==
    /\ pm10_pc[s] = "returned"
    /\ pm10_clicks[s] < MaxClicks
    /\ ~pm10_model_loaded
    /\ \E in \in Pm10InputChoices(HoursAt(s, hours)) :
        pm10_inputs' = [pm10_inputs EXCEPT ![s] = in]
    /\ pm10_run' = [pm10_run EXCEPT ![s] = Pm10NoRun]
    /\ pm10_out' = [pm10_out EXCEPT ![s] = Pm10Result("unavailable", 0, <<>>)]
    /\ pm10_clicks' = [pm10_clicks EXCEPT ![s] = @ + 1]
    /\ UNCHANGED <<pm10_model, pm10_model_loaded, pm10_expected_features, pm10_pc,
                   pm10_errors>>

update_pm10_prediction(s, hours) ==
    /\ \/ Pm10InitialCall(s)
       \/ Pm10Returns(s, hours)
       \/ Pm10Raises(s, hours)
       \/ Pm10Unavailable(s, hours)
    /\ UNCHANGED <<vars7, displayvars>>

\* every deployment of the PM10 model, one deployment of the 7-day model
InitPm10Deployed ==
    /\ InitDisplay
    /\ Init7("stub", {"persistence"}, {<<>>})
    /\ InitPm10(Pm10Deployments)

\* one session clicking predict-pm10-button at any hour of the day
NextPm10 == \E s \in {1} : update_pm10_prediction(s, AllHours)
SpecPm10 == InitPm10Deployed /\ [][NextPm10]_vars

\* the PM10 deployments that differ in the feature names or in the load's
\* outcome, one stand-in for the predictor
Pm10SchemaDeployments == {d \in Pm10Deployments : d.model \in {"persistence", "none"}}

\* every schema of both models; the 7-day draws stubbed at 0.5
InitBoth ==
    /\ InitDisplay
    /\ Init7("stub", {"blend", "rejects_sun"}, Schemas)
    /\ InitPm10(Pm10SchemaDeployments)

\* one session using both forecasts
NextBoth == \E s \in {1} : update_7day_prediction(s) \/ update_pm10_prediction(s, OneHour)
SpecBoth == InitBoth /\ [][NextBoth]_vars

\* two sessions served by the same process, the generator's stream known
InitShared ==
    /\ InitDisplay
    /\ Init7("seeded", {"persistence", "rejects_sun"}, {<<>>})
    /\ InitPm10({Pm10DefaultDeployment})

SpecShared == InitShared /\ [][NextStub]_vars

\* a 7-day model that raises on one weekday, whichever it is, or on none
InitFragile ==
    /\ InitDisplay
    /\ Init7("stub", FragileKinds \cup {"blend"}, Schemas)
    /\ InitPm10({Pm10DefaultDeployment})

SpecFragile == InitFragile /\ [][Next]_vars

\* the outcomes of loading catboost_pm10_24h.pkl (lines 14-25): the except
\* clause sets pm10_model_loaded = False, or the model is loaded
Pm10LoadOutcomes == {d \in Pm10Deployments : ~d.loaded \/ d = Pm10DefaultDeployment}

\* pm25_model_7d.pkl was opened and loaded (lines 10-11)
InitLoaded ==
    /\ InitDisplay
    /\ Init7("stub", {"persistence", "rejects_sun"}, {<<>>})
    /\ InitPm10(Pm10LoadOutcomes)

\* open() or joblib.load() of lines 10-11 raised: nothing catches it at module
\* level, the interpreter exits before line 14 and before app.run_server; no
\* callback is ever called in any session
InitExited ==
    /\ InitDisplay
    /\ model = "none"
    /\ expected_features = <<>>
    /\ random_source = "stub"
    /\ rng_calls = 0
    /\ n_clicks = [s \in Sessions |-> 0]
    /\ pc = [s \in Sessions |-> "no process"]
    /\ inputs = [s \in Sessions |-> NoInputs]
    /\ start_date_obj = [s \in Sessions |-> 0]
    /\ day_offset = [s \in Sessions |-> 0]
    /\ pm25_current = [s \in Sessions |-> 0]
    /\ pm25_lag1d = [s \in Sessions |-> 0]
    /\ pm25_ma3d = [s \in Sessions |-> 0]
    /\ predictions = [s \in Sessions |-> <<>>]
    /\ dates = [s \in Sessions |-> <<>>]
    /\ steps = [s \in Sessions |-> <<>>]
    /\ out = [s \in Sessions |-> NoResult]
    /\ pm10_model = "none"
    /\ pm10_model_loaded = FALSE
    /\ pm10_expected_features = <<>>
    /\ pm10_clicks = [s \in Sessions |-> 0]
    /\ pm10_pc = [s \in Sessions |-> "no process"]
    /\ pm10_inputs = [s \in Sessions |-> Pm10NoInputs]
    /\ pm10_run = [s \in Sessions |-> Pm10NoRun]
    /\ pm10_out = [s \in Sessions |-> Pm10Result("none", 0, <<>>)]
    /\ pm10_errors = [s \in Sessions |-> 0]

\* the process from its start: every outcome of the two loads, then one
\* session using both forecasts
InitLoad == InitLoaded \/ InitExited
SpecLoad == InitLoad /\ [][NextBoth]_vars

\* =================================================================== claims
\* the sessions that have been triggered and whose invocation is in the loop or back
Triggered(s) == n_clicks[s] > 0 /\ pc[s] \in {"loop", "returned"}

\* the calendar day after d, by the lengths of the months of 2024
DayAfter(d) == IF d.day < DaysInMonth[d.month]
               THEN [d EXCEPT !.day = @ + 1]
               ELSE [d EXCEPT !.month = @ + 1, !.day = 1]

RECURSIVE DateAfter(_, _)
DateAfter(d, k) == IF k = 0 THEN d ELSE DayAfter(DateAfter(d, k - 1))

C2_StateUpdate ==
    \A s \in Sessions :
        (Triggered(s) /\ Len(steps[s]) > 0) =>
            LET last == steps[s][Len(steps[s])]
            IN  /\ pm25_lag1d[s] = last.current
                /\ pm25_current[s] = last.adjusted_prediction
                /\ pm25_current[s] = predictions[s][Len(predictions[s])]
                /\ 3 * pm25_ma3d[s] = last.ma + (pm25_lag1d[s] + pm25_current[s]) * MaDen

\* after three steps the recursive average differs from the mean of the last
\* three values of the series (it is no sliding window)
C2_Witness ==
    /\ Len(steps[1]) = 3
    /\ pm25_lag1d[1] # pm25_current[1]
    /\ 3 * pm25_ma3d[1] #
         (predictions[1][1] + predictions[1][2] + predictions[1][3]) * MaDen

\* C3: before step 0 of every run, current = lag1 (1 day ago), previousLag =
\* lag2 (2 days ago) and movingAverage = mean(lag1, lag2, lag3) of that run's inputs.
C3_InitialState ==
    \A s \in Sessions :
        (pc[s] = "loop" /\ day_offset[s] = 0) =>
            /\ pm25_current[s] = inputs[s].pm25_1d_ago
            /\ pm25_lag1d[s] = inputs[s].pm25_2d_ago
            /\ 3 * pm25_ma3d[s] =
                 (inputs[s].pm25_1d_ago + inputs[s].pm25_2d_ago + inputs[s].pm25_3d_ago) * MaDen
            /\ predictions[s] = <<>>
            /\ dates[s] = <<>>

\* the second run of a session stands before its step 0, with three different lags
C3_Witness ==
    /\ pc[1] = "loop"
    /\ day_offset[1] = 0
    /\ n_clicks[1] = 2
    /\ inputs[1].pm25_1d_ago = 3550
    /\ inputs[1].pm25_3d_ago = 1225

\* the spellings feature_values gives to each concept
CurrentNames == {"pm_2_5"}
LagNames == {"pm_2_5_lag1h", "pm25_lag1h", "pm_2_5_lag_1_h"}

HasCol(features, names) == \E k \in 1..Len(features) : features[k].name \in names

\* every column of the row named by one of names holds v, and there is one
ColsAre(features, names, v) ==
    /\ HasCol(features, names)
    /\ \A k \in 1..Len(features) : features[k].name \in names => features[k].value = v

\* C4: the row passed to predict at step i+1 carries step i's adjusted value as
\* the current pollutant value and step i's current value as the lag value;
\* humidity and temperature are the run's inputs and hour is 12 on every step.
C4_Autoregressive ==
    \A s \in Sessions :
        Triggered(s) =>
            /\ \A k \in 1..Len(steps[s]) :
                  /\ ColsAre(steps[s][k].features, {"humidity"}, inputs[s].humidity)
                  /\ ColsAre(steps[s][k].features, {"temperature"}, inputs[s].temperature)
                  /\ ColsAre(steps[s][k].features, {"hour"}, 12)
            /\ \A k \in 1..(Len(steps[s]) - 1) :
                  /\ ColsAre(steps[s][k + 1].features, CurrentNames,
                             steps[s][k].adjusted_prediction)
                  /\ ColsAre(steps[s][k + 1].features, CurrentNames, predictions[s][k])
                  /\ ColsAre(steps[s][k + 1].features, LagNames,
                             Col(steps[s][k].features, CurrentNames))

\* all seven rows of a run were built for a model with named features, and the
\* series moved between the steps
C4_Witness ==
    /\ expected_features = TrainedSchema
    /\ Len(steps[1]) = 7
    /\ predictions[1][6] # predictions[1][5]
    /\ Col(steps[1][7].features, CurrentNames) = predictions[1][6]

\* C5: the value appended to the series at each step is the product
\* base * weekdayFactor * weatherCycleFactor * noiseFactor rounded to the nearest
\* hundredth (ties to the even hundredth).
C5_RoundedProduct ==
    \A s \in Sessions :
        Triggered(s) =>
            \A k \in 1..Len(steps[s]) :
                LET st == steps[s][k]
                    a == st.base_prediction * st.weekday_factor * st.weather_factor
                    q == a \div FactorDen
                    r == a % FactorDen
                    \* adjusted - product = (d * FactorDen - r * nf) / FactorDen
                    d == st.adjusted_prediction - q * st.random_factor
                    twice == 2 * (d * FactorDen - r * st.random_factor)
                IN  /\ predictions[s][k] = st.adjusted_prediction
                    /\ d \in 0..(st.random_factor + 1)
                    /\ twice <= FactorDen
                    /\ twice >= -FactorDen
                    /\ (Abs(twice) = FactorDen) => st.adjusted_prediction % 2 = 0

\* a step whose product lay strictly above a hundredth and was rounded up
C5_Witness ==
    \E k \in 1..Len(steps[1]) :
        LET st == steps[1][k]
            a == st.base_prediction * st.weekday_factor * st.weather_factor
            q == a \div FactorDen
            r == a % FactorDen
        IN  /\ (r * st.random_factor) % FactorDen # 0
            /\ st.adjusted_prediction = q * st.random_factor
                                        + (r * st.random_factor) \div FactorDen + 1

\* C6: weekdayFactor is exactly 1.0 on Monday..Friday, 0.90 on Saturday and 0.85
\* on Sunday, whatever the step index and the predictor's output.
C6_WeekdayFactor ==
    \A s \in Sessions :
        Triggered(s) =>
            \A k \in 1..Len(steps[s]) :
                LET st == steps[s][k]
                IN  /\ st.day_of_week \in 0..6
                    /\ st.day_of_week \in 0..4 => st.weekday_factor = WfDen
                    /\ st.day_of_week = 5 => 100 * st.weekday_factor = 90 * WfDen
                    /\ st.day_of_week = 6 => 100 * st.weekday_factor = 85 * WfDen

\* a finished run whose Saturday and Sunday steps met different outputs of the predictor
C6_Witness ==
    /\ Len(steps[1]) = 7
    /\ \E j, k \in 1..7 :
          /\ steps[1][j].day_of_week = 5
          /\ steps[1][k].day_of_week = 6
          /\ steps[1][j].base_prediction # steps[1][k].base_prediction
          /\ steps[1][j].weekday_factor = 18
          /\ steps[1][k].weekday_factor = 17

\* the factor of a weekday index, Monday = 0: 1.0, 0.90 on Saturday, 0.85 on Sunday
FactorOfIndex(w) == IF w = 5 THEN 18 ELSE IF w = 6 THEN 17 ELSE 20

\* C7: the weekdayFactor of step i is the one of the calendar weekday of
\* startDate + i days, of index (weekday(startDate) + i) mod 7; a run starting on
\* Friday 2024-01-05 applies 1.0, 0.90, 0.85, 1.0, 1.0, 1.0, 1.0.
C7_CalendarWeekday ==
    \A s \in Sessions :
        Triggered(s) =>
            \A k \in 1..Len(steps[s]) :
                LET i == k - 1
                    w0 == Weekday(Strptime(inputs[s].start_date))
                IN  /\ steps[s][k].day_of_week = (w0 + i) % 7
                    /\ steps[s][k].weekday_factor = FactorOfIndex((w0 + i) % 7)
                    /\ inputs[s].start_date = Date(1, 5) =>
                          steps[s][k].weekday_factor = <<20, 18, 17, 20, 20, 20, 20>>[k]
                    /\ inputs[s].start_date = Date(2, 25) =>
                          steps[s][k].weekday_factor = <<17, 20, 20, 20, 20, 20, 18>>[k]

\* the run of scenario A (start on Friday 2024-01-05) has done its seven steps
C7_Witness ==
    /\ inputs[1].start_date = Date(1, 5)
    /\ Len(steps[1]) = 7
    /\ steps[1][2].weekday_factor = 18
    /\ steps[1][3].weekday_factor = 17

\* C8: weatherCycleFactor depends only on i mod 3 and is exactly 1.0 at the step
\* indices 0, 3 and 6.
C8_WeatherCycle ==
    \A s \in Sessions :
        Triggered(s) =>
            \A k \in 1..Len(steps[s]) :
                /\ (k - 1) % 3 = 0 => steps[s][k].weather_factor = WcDen
                /\ \A j \in 1..Len(steps[s]) :
                      (j - 1) % 3 = (k - 1) % 3 =>
                          steps[s][j].weather_factor = steps[s][k].weather_factor

\* a finished run: the factor left 1.0 at the phases 1 and 2 and came back to it
C8_Witness ==
    /\ Len(steps[1]) = 7
    /\ steps[1][2].weather_factor > WcDen
    /\ steps[1][3].weather_factor < WcDen
    /\ steps[1][7].weather_factor = WcDen

\* C9: for every draw U of [0, 1), noiseFactor = 1 + 0.03 * (U - 0.5) lies in
\* [0.985, 1.015), and U = 0.5 gives exactly 1.0.
C9_NoiseBounds ==
    \A s \in Sessions :
        Triggered(s) =>
            \A k \in 1..Len(steps[s]) :
                LET st == steps[s][k]
                IN  /\ st.u \in 0..(UDen - 1)
                    /\ 200 * UDen * (st.random_factor - NfDen) = 3 * (2 * st.u - UDen) * NfDen
                    /\ 1000 * st.random_factor >= 985 * NfDen
                    /\ 1000 * st.random_factor < 1015 * NfDen
                    /\ 2 * st.u = UDen => st.random_factor = NfDen

\* one run drew the least value, one half and a value above one half
C9_Witness ==
    /\ Len(steps[1]) = 7
    /\ \E i, j, k \in 1..7 :
          /\ steps[1][i].u = 0 /\ 1000 * steps[1][i].random_factor = 985 * NfDen
          /\ 2 * steps[1][j].u = UDen
          /\ 2 * steps[1][k].u > UDen /\ steps[1][k].random_factor > NfDen

\* C10: with the random source fixed at U = 0.5 and a deterministic predictor,
\* two runs with identical inputs return identical 7-element series.
C10_Deterministic ==
    \A s, t \in Sessions :
        (/\ pc[s] = "returned" /\ n_clicks[s] > 0
         /\ pc[t] = "returned" /\ n_clicks[t] > 0
         /\ inputs[s] = inputs[t]) =>
            /\ \A k \in 1..Len(steps[s]) : steps[s][k].random_factor = NfDen
            /\ out[s].kind = "series"
            /\ Len(out[s].predictions) = 7
            /\ out[s].predictions = out[t].predictions
            /\ out[s].dates = out[t].dates

\* the second run of one session and the first run of the other, with the same
\* inputs, have both returned
C10_Witness ==
    /\ pc[1] = "returned" /\ n_clicks[1] = 2
    /\ pc[2] = "returned" /\ n_clicks[2] = 1
    /\ inputs[1] = inputs[2]
    /\ out[1].kind = "series"
    /\ out[1].predictions[7] # out[1].predictions[1]

\* ------------------------------------------------------------ C13 .. C15
\* the five fields of the PM10 form, in the order the callbacks list them
FormLags(f) == <<f.current, f.lag1, f.lag3, f.lag6, f.lag24>>

\* the three statistics of a session's display are the means and the weighted
\* sum of its form's fields, and the text shows each rounded to two decimals
StatsOfForm(s) ==
    LET f == form10[s]
        d == avg_display[s]
    IN  /\ d.computed
        /\ 4 * d.roll_mean_6 = StatScale * (f.current + f.lag1 + f.lag3 + f.lag6)
        /\ 5 * d.roll_mean_24 =
                StatScale * (f.current + f.lag1 + f.lag3 + f.lag6 + f.lag24)
        /\ 100 * d.ewm_12 =
                StatScale * (40 * f.current + 25 * f.lag1 + 20 * f.lag3
                             + 10 * f.lag6 + 5 * f.lag24)
        /\ 2 * Abs(StatScale * d.text[1] - d.roll_mean_6) <= StatScale
        /\ 2 * Abs(StatScale * d.text[2] - d.roll_mean_24) <= StatScale
        /\ 2 * Abs(StatScale * d.text[3] - d.ewm_12) <= StatScale

\* C13 as stated: with the five PM10 fields present, rollMean6 is the mean of
\* current, lag1, lag3 and lag6, rollMean24 the mean of all five and ewm12 is
\* 0.4*current + 0.25*lag1 + 0.2*lag3 + 0.1*lag6 + 0.05*lag24; for
\* [30, 28, 25, 22, 28] they are 26.25, 26.6 and 27.5.
C13_AsStated ==
    \A s \in Sessions :
        AllPresent(FormLags(form10[s])) =>
            /\ StatsOfForm(s)
            /\ FormLags(form10[s]) = <<3000, 2800, 2500, 2200, 2800>> =>
                    avg_display[s].text = <<2625, 2660, 2750>>

\* C13, amended: the same three formulas, shown rounded to two decimals; for
\* [30, 28, 25, 22, 28] they give 26.25, 26.60 and 27.60 (the weighted sum is
\* 12 + 7 + 5 + 2.2 + 1.4).
C13_RollingStats ==
    \A s \in Sessions :
        AllPresent(FormLags(form10[s])) =>
            /\ StatsOfForm(s)
            /\ FormLags(form10[s]) = <<3000, 2800, 2500, 2200, 2800>> =>
                    /\ avg_display[s].text = <<2625, 2660, 2760>>
                    /\ avg_display[s].ewm_12 = 2760 * StatScale

\* a field was edited: the 6-hour mean 26.2525 is shown as 26.25
C13_Witness ==
    /\ form10[1] = [Form10Default EXCEPT !.current = 3001]
    /\ avg_display[1].roll_mean_6 = 262525
    /\ avg_display[1].text = <<2625, 2660, 2760>>
    /\ form7[1].pm25_1d = None

\* C15: the two display callbacks always return numbers to show, and when a
\* field of their form is absent, whichever and however many, every number
\* they show is 0: the three PM10 statistics and the 3-day average.
C15_AbsentGivesZero ==
    \A s \in Sessions :
        /\ ma3_display[s] \in Nat
        /\ \A k \in 1..3 : avg_display[s].text[k] \in Nat
        /\ Len(avg_display[s].text) = 3
        /\ ~AllPresent(FormLags(form10[s])) =>
                /\ avg_display[s].text = <<0, 0, 0>>
                /\ ~avg_display[s].computed
        /\ ~AllPresent(<<form7[s].pm25_1d, form7[s].pm25_2d, form7[s].pm25_3d>>) =>
                ma3_display[s] = 0

\* the last PM10 field and the middle 7-day field are empty, the others filled
C15_Witness ==
    /\ form10[1] = [Form10Default EXCEPT !.lag24 = None]
    /\ avg_display[1].text = <<0, 0, 0>>
    /\ form7[1] = [Form7Default EXCEPT !.pm25_2d = None]
    /\ ma3_display[1] = 0

\* ------------------------------------------------------------------- C14
\* C14: the weights of ewm12 are 0.4, 0.25, 0.2, 0.1, 0.05 in the display
\* callback and in the PM10 run, they sum to 1, and the ewm12 of five equal
\* values is that value.
C14_Weights ==
    \A s \in Sessions :
        /\ avg_display[s].computed =>
                /\ avg_display[s].weights = <<40, 25, 20, 10, 5>>
                /\ SumSeq(avg_display[s].weights) = 100
        /\ pm10_run[s].reached \in {"line 1275", "line 1278", "return"} =>
                /\ pm10_run[s].weights = <<40, 25, 20, 10, 5>>
                /\ SumSeq(pm10_run[s].weights) = 100
                /\ LET v == pm10_inputs[s].current_pm10
                   IN  Pm10Lags(pm10_inputs[s]) = <<v, v, v, v, v>> =>
                           pm10_run[s].pm10_ewm_12 = StatScale * v

\* a run on five values of 10.00 computed an ewm12 of 10.00
C14_Witness ==
    /\ Pm10Lags(pm10_inputs[1]) = <<1000, 1000, 1000, 1000, 1000>>
    /\ pm10_run[1].reached = "return"
    /\ pm10_run[1].pm10_ewm_12 = 1000 * StatScale
    /\ avg_display[1].computed

\* ------------------------------------------------------------ C11, C12
\* the names and the values of a row, in column order
NamesOf(features) == [k \in 1..Len(features) |-> features[k].name]
ValuesOf(features) == [k \in 1..Len(features) |-> features[k].value]

\* the semantic value of a name at a step of the 7-day run, 0 for a name the
\* run has no value for
Semantic7(s, k, name) ==
    LET d == DateAfter(inputs[s].start_date, k - 1)
    IN  CASE name = "humidity" -> inputs[s].humidity
          [] name = "temperature" -> inputs[s].temperature
          [] name = "hour" -> 12
          [] name = "day" -> d.day
          [] name = "month" -> d.month
          [] name = "day_of_week" -> steps[s][k].day_of_week
          [] name = "pm_2_5" -> steps[s][k].current
          [] name \in LagNames -> steps[s][k].lag
          [] name \in {"pm_2_5_ma3h", "pm25_ma3h"} -> steps[s][k].ma
          [] OTHER -> 0

\* the semantic value of a name in a PM10 run (2024-01-05 is a Friday, the
\* fifth day of the year), 0 for a name the run has no value for
Semantic10(s, name) ==
    LET in == pm10_inputs[s]
    IN  CASE name = "timestamp" -> 24 * (in.date.day - 1) + in.hour
          [] name = "humidity" -> in.humidity
          [] name = "pm_10" -> in.current_pm10
          [] name = "temperature" -> in.temperature
          [] name = "hour" -> in.hour
          [] name = "day" -> in.date.day
          [] name = "month" -> in.date.month
          [] name = "day_of_week" -> 4
          [] name = "pm10_lag_1" -> in.pm10_lag_1
          [] name = "pm10_lag_3" -> in.pm10_lag_3
          [] name = "pm10_lag_6" -> in.pm10_lag_6
          [] name = "pm10_lag_24" -> in.pm10_lag_24
          [] name = "pm10_roll_mean_6" -> pm10_run[s].pm10_roll_mean_6
          [] name = "pm10_roll_mean_24" -> pm10_run[s].pm10_roll_mean_24
          [] name = "pm10_ewm_12" -> pm10_run[s].pm10_ewm_12
          [] OTHER -> 0

\* the rows of the 7-day run of session s have these names, each with its
\* semantic value
Rows7Are(s, names) ==
    \A k \in 1..Len(steps[s]) :
        /\ NamesOf(steps[s][k].features) = names
        /\ ValuesOf(steps[s][k].features) =
               [j \in 1..Len(names) |-> Semantic7(s, k, names[j])]

\* the PM10 run of session s got as far as building its row
Built10(s) == pm10_run[s].reached \in {"line 1275", "line 1278", "return"}

Row10Is(s, names) ==
    /\ NamesOf(pm10_run[s].features) = names
    /\ ValuesOf(pm10_run[s].features) = [j \in 1..Len(names) |-> Semantic10(s, names[j])]

\* C11: when a model has feature names, every row built for it, on the 7-day
\* track and on the PM10 track, has exactly those names in their order, each
\* with its semantic value, or 0 if the run has no value of that name.
C11_KnownSchema ==
    \A s \in Sessions :
        /\ expected_features # <<>> => Rows7Are(s, expected_features)
        /\ pm10_expected_features # <<>> /\ Built10(s) =>
                Row10Is(s, pm10_expected_features)

\* both models have feature names with one unknown to the run: the seven rows
\* of a 7-day run and the row of a PM10 run carry 0 under it
C11_Witness ==
    /\ expected_features = TrainedSchema
    /\ Len(steps[1]) = 7
    /\ steps[1][7].features[10] = [name |-> "wind_speed", value |-> 0]
    /\ steps[1][7].features[1] = [name |-> "humidity", value |-> 45]
    /\ pm10_expected_features = Pm10TrainedSchema
    /\ pm10_run[1].reached = "return"
    /\ pm10_run[1].features[11] = [name |-> "wind_speed", value |-> 0]
    /\ pm10_run[1].features[6] = [name |-> "pm_10", value |-> 3000]

\* C12: when a model has no feature names, every row built for it has the
\* fixed names of its track in their fixed order, 9 on the 7-day track and 15
\* on the PM10 track, each with the value of its input or carried field.
C12_CanonicalOrder ==
    \A s \in Sessions :
        /\ expected_features = <<>> =>
                Rows7Are(s, <<"humidity", "pm_2_5", "temperature", "hour", "day", "month",
                              "day_of_week", "pm_2_5_lag1h", "pm_2_5_ma3h">>)
        /\ pm10_expected_features = <<>> /\ Built10(s) =>
                Row10Is(s, <<"timestamp", "humidity", "pm_10", "temperature", "hour",
                             "day", "month", "day_of_week", "pm10_lag_1", "pm10_lag_3",
                             "pm10_lag_6", "pm10_lag_24", "pm10_roll_mean_6",
                             "pm10_roll_mean_24", "pm10_ewm_12">>)

\* neither model has feature names: a 7-day run built seven rows of 9 columns
\* and a PM10 run one row of 15
C12_Witness ==
    /\ expected_features = <<>>
    /\ Len(steps[1]) = 7
    /\ Len(steps[1][7].features) = 9
    /\ steps[1][7].features[2].value = predictions[1][6]
    /\ pm10_expected_features = <<>>
    /\ pm10_run[1].reached = "return"
    /\ Len(pm10_run[1].features) = 15
    /\ pm10_run[1].features[13] = [name |-> "pm10_roll_mean_6", value |-> 2625 * StatScale]

\* ------------------------------------------------------------------- C16
\* C16 as stated: a run triggered with a lag value absent, on either track,
\* takes 0 for the statistic computed from it and continues to its full
\* output: the 7-day run goes through its loop to a series of 7 values, the
\* PM10 run returns a curve, and neither ends in an error.
C16_AbsentLagAbsorbed ==
    \A s \in Sessions :
        /\ n_clicks[s] > 0 /\ ~LagsPresent(inputs[s]) =>
                /\ pc[s] \in {"loop", "returned"}
                /\ Len(steps[s]) > 0 => steps[s][1].ma = 0
                /\ pc[s] = "returned" =>
                        out[s].kind = "series" /\ Len(out[s].predictions) = 7
        /\ pm10_clicks[s] > 0 /\ pm10_model_loaded /\ pm10_expected_features = <<>>
              /\ ~AllPresent(Pm10Lags(pm10_inputs[s])) =>
                /\ pm10_out[s].kind = "curve"
                /\ Len(pm10_out[s].pm10_values) = 25
                /\ Col(pm10_run[s].features, {"pm10_roll_mean_24"}) = 0

\* ------------------------------------------------------------ C17 .. C20
\* the PM10 invocation of session s returned a curve
Curve(s) == pm10_out[s].kind = "curve"

\* C17: every PM10 run that succeeds returns a curve of exactly 25 values, the
\* value of offset h at place h in the order h = 0..24; the 25 values of the
\* plain interpolation computed first are not part of it: the list holds the
\* 25 adjusted values only, each the interpolated value plus its modifier.
C17_TwentyFiveValues ==
    \A s \in Sessions :
        Curve(s) =>
            /\ Len(pm10_out[s].pm10_values) = 25
            /\ Len(pm10_run[s].points) = 25
            /\ \A h \in 0..24 :
                  /\ pm10_run[s].points[h + 1].h = h
                  /\ pm10_out[s].pm10_values[h + 1] = pm10_run[s].points[h + 1].adjusted_value
            /\ Len(pm10_run[s].first_pass) = 25
            /\ \A h \in 0..24 :
                  pm10_out[s].pm10_values[h + 1] =
                      pm10_run[s].first_pass[h + 1] + pm10_run[s].points[h + 1].modifier
            /\ pm10_run[s].pm10_values = pm10_out[s].pm10_values

\* a run from 07:00 returned 25 values, the first above the interpolation's
\* first value
C17_Witness ==
    /\ Curve(1)
    /\ pm10_inputs[1].hour = 7
    /\ Len(pm10_out[1].pm10_values) = 25
    /\ pm10_run[1].first_pass[1] = CurveDen * 3000
    /\ pm10_out[1].pm10_values[1] > CurveDen * 3000

\* the band factor of an hour of the day in 1/300, peaks positive and dips
\* negative: 0.15, 0.10, 0.12 and 0.20 times 1 - |hour - centre| / halfwidth
BandTable(hour) ==
    CASE hour \in {7, 8} -> 30
      [] hour \in {14, 15} -> -20
      [] hour \in {19, 20} -> 24
      [] hour \in {1, 5} -> -20
      [] hour \in {2, 4} -> -40
      [] hour = 3 -> -60
      [] OTHER -> 0

\* 24 times the base value of offset h of the run of session s
Base24(s, h) ==
    24 * pm10_inputs[s].current_pm10
        + (pm10_out[s].prediction - pm10_inputs[s].current_pm10) * h

\* C18: for every offset h in 0..24 and every start hour, the value of the
\* curve at h is baseValue + band(absoluteHour, baseValue), absoluteHour =
\* (startHour + h) mod 24 and baseValue = current + (predicted - current) * h/24.
C18_DiurnalValue ==
    \A s \in Sessions :
        Curve(s) =>
            \A h \in 0..24 :
                LET absoluteHour == (pm10_inputs[s].hour + h) % 24
                IN  pm10_out[s].pm10_values[h + 1] =
                        300 * Base24(s, h) + BandTable(absoluteHour) * Base24(s, h)

\* a run from 23:00 whose prediction differs from the current value: offset 8
\* falls on 07:00 and carries the morning peak on the interpolated base
C18_Witness ==
    /\ Curve(1)
    /\ pm10_inputs[1].hour = 23
    /\ pm10_inputs[1].current_pm10 = 3000
    /\ pm10_out[1].prediction = 3190
    /\ pm10_out[1].pm10_values[9] = 330 * (24 * 3000 + 190 * 8)

\* C19: each hour 0..23 falls in exactly one of the five cases (6-9 morning
\* peak, 13-16 afternoon dip, 18-21 evening peak, 0-5 night dip, otherwise
\* none) and the modifier is that case's formula; hours 10, 11, 12, 17, 22
\* and 23 get 0; with a base value >= 0 peaks are >= 0 and dips <= 0.
C19_Bands ==
    \A s \in Sessions :
        \A k \in 1..Len(pm10_run[s].points) :
            LET p == pm10_run[s].points[k]
                hour == p.current_hour
                base == p.base_value
            IN  /\ hour \in 0..23
                /\ p.band \in {"morning", "afternoon", "evening", "night", "none"}
                /\ p.band = "morning" <=> hour \in 6..9
                /\ p.band = "afternoon" <=> hour \in 13..16
                /\ p.band = "evening" <=> hour \in 18..21
                /\ p.band = "night" <=> hour \in 0..5
                /\ p.band = "none" <=> hour \in {10, 11, 12, 17, 22, 23}
                /\ p.band = "morning" => p.modifier = base * 15 * (3 - Abs(2 * hour - 15))
                /\ p.band = "afternoon" => p.modifier = -(base * 10 * (3 - Abs(2 * hour - 29)))
                /\ p.band = "evening" => p.modifier = base * 12 * (3 - Abs(2 * hour - 39))
                /\ p.band = "night" => p.modifier = -(base * 20 * (3 - Abs(hour - 3)))
                /\ p.band = "none" => p.modifier = 0
                /\ base >= 0 /\ p.band \in {"morning", "evening"} => p.modifier >= 0
                /\ base >= 0 /\ p.band \in {"afternoon", "night"} => p.modifier <= 0

\* a run from 22:00 passes 03:00 at offset 5, the deepest night dip, and
\* 10:00 at offset 12, a neutral hour
C19_Witness ==
    /\ Curve(1)
    /\ pm10_inputs[1].hour = 22
    /\ pm10_run[1].points[6].band = "night"
    /\ pm10_run[1].points[6].base_value > 0
    /\ pm10_run[1].points[6].modifier = -(60 * pm10_run[1].points[6].base_value)
    /\ pm10_run[1].points[13].band = "none"
    /\ pm10_run[1].points[13].modifier = 0

\* the hours of the day outside the four bands
NeutralHours == {10, 11, 12, 17, 22, 23}

\* C20: in a run whose prediction equals the current value, every offset on
\* a neutral hour has exactly that value (so a curve on neutral hours only is
\* constant), and the first value differs from the current value by the band
\* modifier of the start hour on the current value.
C20_FlatBase ==
    \A s \in Sessions :
        Curve(s) /\ pm10_out[s].prediction = pm10_inputs[s].current_pm10 =>
            LET cur == pm10_inputs[s].current_pm10
                values == pm10_out[s].pm10_values
                hourAt(h) == (pm10_inputs[s].hour + h) % 24
            IN  /\ \A h \in 0..24 : hourAt(h) \in NeutralHours => values[h + 1] = CurveDen * cur
                /\ (\A h \in 0..24 : hourAt(h) \in NeutralHours) =>
                        \A h \in 0..24 : values[h + 1] = CurveDen * cur
                /\ values[1] - CurveDen * cur = BandTable(pm10_inputs[s].hour) * 24 * cur

\* a run from 07:00 on a model returning the current value 30.00: the first
\* value is 10% above it and offset 3, at 10:00, is exactly it
C20_Witness ==
    /\ Curve(1)
    /\ pm10_model = "persistence"
    /\ pm10_inputs[1].hour = 7
    /\ pm10_inputs[1].current_pm10 = 3000
    /\ pm10_out[1].prediction = 3000
    /\ pm10_out[1].pm10_values[1] = CurveDen * 3300
    /\ pm10_out[1].pm10_values[4] = CurveDen * 3000

\* ------------------------------------------------------------------- C21
\* C21 as stated: for every start hour in 6..9 and every positive current
\* value, value[0] is strictly above the current value, although the base
\* value at offset 0 is the current value.
C21_AsStated ==
    \A s \in Sessions :
        Curve(s) /\ pm10_inputs[s].hour \in 6..9 /\ pm10_inputs[s].current_pm10 > 0 =>
            /\ pm10_run[s].points[1].base_value = 24 * pm10_inputs[s].current_pm10
            /\ pm10_out[s].pm10_values[1] > CurveDen * pm10_inputs[s].current_pm10

\* C21, amended: for a start hour of 7 or 8 and a positive current value,
\* value[0] is strictly above the current value (by 10%) although the base
\* value at offset 0 is the current value; for a start hour of 6 or 9, the
\* ends of the band where the factor is 0, value[0] is the current value.
C21_MorningStart ==
    \A s \in Sessions :
        Curve(s) /\ pm10_inputs[s].current_pm10 > 0 =>
            LET cur == pm10_inputs[s].current_pm10
                v0 == pm10_out[s].pm10_values[1]
            IN  /\ pm10_run[s].points[1].base_value = 24 * cur
                /\ pm10_inputs[s].hour \in {7, 8} =>
                        v0 > CurveDen * cur /\ 10 * v0 = 11 * CurveDen * cur
                /\ pm10_inputs[s].hour \in {6, 9} => v0 = CurveDen * cur

\* a run from 08:00 on a current value of 1.00 starts at 1.10
C21_Witness ==
    /\ Curve(1)
    /\ pm10_inputs[1].hour = 8
    /\ pm10_inputs[1].current_pm10 = 100
    /\ pm10_out[1].pm10_values[1] = CurveDen * 110
    /\ pm10_run[1].points[1].base_value = 2400

\* ------------------------------------------------------------------- C23
\* C23: when the statistics, the feature row or the predictor call of a PM10
\* run raise, the run returns the error message and an empty figure, with no
\* curve value computed or returned, and the callback is back to be called
\* again; a run after failed ones returns the curve of its own inputs.
C23_CaughtAtBoundary ==
    \A s \in Sessions :
        /\ pm10_run[s].reached \in {"line 1220", "line 1221", "line 1275", "line 1278"} =>
                /\ pm10_out[s] = [kind |-> "error", prediction |-> 0, pm10_values |-> <<>>]
                /\ pm10_run[s].pm10_values = <<>>
                /\ pm10_run[s].first_pass = <<>>
                /\ pm10_run[s].points = <<>>
                /\ pm10_pc[s] = "returned"
                /\ pm10_errors[s] > 0
        /\ pm10_out[s].kind = "error" => pm10_run[s].reached \notin {"return", "none"}
        /\ pm10_errors[s] > 0 /\ Curve(s) =>
                /\ Len(pm10_out[s].pm10_values) = 25
                /\ \A h \in 0..24 :
                       pm10_out[s].pm10_values[h + 1] =
                           (300 + BandTable((pm10_inputs[s].hour + h) % 24)) * Base24(s, h)

\* a run whose predictor call raised, after which the same session ran again
C23_FailedRun ==
    /\ pm10_run[1].reached = "line 1278"
    /\ pm10_out[1].kind = "error"
    /\ pm10_clicks[1] = 2

\* a session whose first run failed on an absent lag and whose second run
\* returned a curve
C23_Witness ==
    /\ pm10_errors[1] = 1
    /\ pm10_clicks[1] = 2
    /\ Curve(1)
    /\ pm10_model = "trend"
    /\ pm10_out[1].prediction = 3190

\* ------------------------------------------------------------------- C27
\* the offsets within 2 of i, clipped to 0..24
Within2(i) == {j \in 0..24 : Abs(j - i) <= 2}

\* the first offset whose hour is in lo..hi and whose value is the largest
\* (sign = 1) or the smallest (sign = -1) of the values within 2 offsets
LocalExtremum(s, lo, hi, sign) ==
    LET values == pm10_out[s].pm10_values
        hits == {i \in 0..24 :
                    /\ (pm10_inputs[s].hour + i) % 24 \in lo..hi
                    /\ \A j \in Within2(i) : sign * values[j + 1] <= sign * values[i + 1]}
    IN  IF hits = {} THEN None ELSE CHOOSE i \in hits : \A j \in hits : i <= j

\* C27 as stated: for the morning peak, the afternoon dip and the evening
\* peak the annotation search returns the first offset i whose hour is in the
\* band and whose value is the maximum (peaks) or minimum (dip) of the curve
\* values at the offsets within 2 of i, clipped to 0..24, offset 24 included;
\* the 25 curve values are unchanged by the search.
C27_AnnotationSearch ==
    \A s \in Sessions :
        Curve(s) =>
            /\ pm10_run[s].morning_peak_idx = LocalExtremum(s, 6, 9, 1)
            /\ pm10_run[s].afternoon_dip_idx = LocalExtremum(s, 13, 16, -1)
            /\ pm10_run[s].evening_peak_idx = LocalExtremum(s, 18, 21, 1)
            /\ pm10_out[s].pm10_values = pm10_run[s].pm10_values
            /\ Len(pm10_out[s].pm10_values) = 25

\* the run the two readings part on: from 08:00 on a current value of 1.00
\* towards a prediction of 14.50 the slice of offset 23 ends before offset 24,
\* so offset 23 is returned although the value at offset 24 is larger
C27_LastOffsetLeftOut ==
    /\ Curve(1)
    /\ pm10_inputs[1].hour = 8
    /\ pm10_inputs[1].current_pm10 = 100
    /\ pm10_out[1].prediction = 1450
    /\ pm10_run[1].morning_peak_idx = 23
    /\ LocalExtremum(1, 6, 9, 1) = 24
    /\ pm10_out[1].pm10_values[24] < pm10_out[1].pm10_values[25]

\* ------------------------------------------------------------------- C28
\* C28 as stated: the first and the last point of a curve carry the band
\* factor k of the start hour: value[0] = current * (1 + k), value[24] =
\* predicted * (1 + k); the curve starts at the current value and ends at the
\* predicted one if and only if k is 0.
C28_AsStated ==
    \A s \in Sessions :
        Curve(s) =>
            LET cur == pm10_inputs[s].current_pm10
                pred == pm10_out[s].prediction
                k == BandTable(pm10_inputs[s].hour)
                values == pm10_out[s].pm10_values
            IN  /\ values[1] = 24 * cur * (300 + k)
                /\ values[25] = 24 * pred * (300 + k)
                /\ (values[1] = CurveDen * cur /\ values[25] = CurveDen * pred) <=> k = 0

\* C28, amended: value[0] = current * (1 + k) and value[24] = predicted *
\* (1 + k) with the band factor k of the start hour for both; the curve
\* starts at the current value and ends at the predicted one when k is 0
\* (neutral hours and the hours 0, 6, 9, 13, 16, 18, 21), and when k is not 0
\* only if the current and the predicted value are both 0.
C28_Endpoints ==
    \A s \in Sessions :
        Curve(s) =>
            LET cur == pm10_inputs[s].current_pm10
                pred == pm10_out[s].prediction
                k == BandTable(pm10_inputs[s].hour)
                values == pm10_out[s].pm10_values
            IN  /\ pm10_run[s].points[1].current_hour = pm10_inputs[s].hour
                /\ pm10_run[s].points[25].current_hour = pm10_inputs[s].hour
                /\ values[1] = 24 * cur * (300 + k)
                /\ values[25] = 24 * pred * (300 + k)
                /\ (values[1] = CurveDen * cur /\ values[25] = CurveDen * pred)
                       <=> (k = 0 \/ (cur = 0 /\ pred = 0))
                /\ k = 0 <=> pm10_inputs[s].hour \in NeutralHours \cup {0, 6, 9, 13, 16, 18, 21}

\* a run from 14:00, in the afternoon dip: the curve starts below the current
\* value 30.00 and ends below the prediction 31.90 by the same fifteenth
C28_Witness ==
    /\ Curve(1)
    /\ pm10_inputs[1].hour = 14
    /\ pm10_inputs[1].current_pm10 = 3000
    /\ pm10_out[1].prediction = 3190
    /\ pm10_out[1].pm10_values[1] = 24 * 280 * 3000
    /\ pm10_out[1].pm10_values[25] = 24 * 280 * 3190

\* a run from 07:00 on a current value of 0 with a prediction of 0: the band
\* factor is 0.1 and the curve starts at the current and ends at the
\* predicted value
C28_ZeroCurve ==
    /\ Curve(1)
    /\ pm10_inputs[1].hour = 7
    /\ BandTable(7) = 30
    /\ pm10_inputs[1].current_pm10 = 0
    /\ pm10_out[1].prediction = 0
    /\ pm10_out[1].pm10_values[1] = 0
    /\ pm10_out[1].pm10_values[25] = 0

\* ------------------------------------------------------------------- C29
\* C29 as stated: a PM10 run with the model loaded, all inputs present and a
\* predictor that returns ends with a curve of 25 points and not with an
\* error, whatever the model's feature names, also without 'timestamp'.
C29_AlwaysCurve ==
    \A s \in Sessions :
        /\ pm10_clicks[s] > 0
        /\ pm10_model_loaded
        /\ AllPresent(Pm10Lags(pm10_inputs[s]))
        /\ pm10_model # "raising"
        => /\ Curve(s)
           /\ Len(pm10_out[s].pm10_values) = 25

\* ------------------------------------------------------------------- C22
\* C22 as stated: with the PM10 model not loaded every click on the PM10
\* button returns the "model unavailable" result with an empty figure, no
\* feature row built and predict not called; with the 7-day model not loaded
\* the 7-day track does the same: it serves its clicks and answers each with
\* the "model unavailable" result, no iteration done.
C22_ModelUnavailable ==
    \A s \in Sessions :
        /\ ~pm10_model_loaded /\ pm10_clicks[s] > 0 =>
                /\ pm10_out[s] = Pm10Result("unavailable", 0, <<>>)
                /\ pm10_run[s] = Pm10NoRun
        /\ model = "none" =>
                /\ pc[s] # "no process"
                /\ n_clicks[s] > 0 => out[s].kind = "unavailable" /\ steps[s] = <<>>

\* the PM10 half: a second click answered with "model unavailable"
C22_Pm10Unavailable ==
    /\ ~pm10_model_loaded
    /\ pm10_clicks[1] = 2
    /\ pm10_out[1].kind = "unavailable"
    /\ pm10_run[1].features = <<>>

\* ------------------------------------------------------------------- C30
\* C30: while the click count of a button is 0 its callback has returned
\* nothing but the empty result and the empty figure, no feature row exists
\* and predict was not called, loaded model or not; a 7-day run that returned
\* has called the 7-day model once in each of its 7 iterations and a PM10
\* run that returned has called the PM10 model once; an iteration of the
\* 7-day loop leaves the PM10 track as it is, and a PM10 run the 7-day track.
C30_NoForecastBeforeTrigger ==
    /\ [](\A s \in Sessions :
            /\ n_clicks[s] = 0 =>
                    /\ steps[s] = <<>> /\ predictions[s] = <<>> /\ dates[s] = <<>>
                    /\ out[s] \in {NoResult, EmptyResult}
                    /\ pc[s] = "returned" => out[s] = EmptyResult
            /\ pm10_clicks[s] = 0 =>
                    /\ pm10_run[s] = Pm10NoRun
                    /\ pm10_out[s] \in {Pm10Result("none", 0, <<>>), Pm10Result("empty", 0, <<>>)}
                    /\ pm10_pc[s] = "returned" => pm10_out[s].kind = "empty"
            /\ n_clicks[s] > 0 /\ pc[s] = "returned" =>
                    /\ Len(steps[s]) = 7
                    /\ \A k \in 1..7 :
                           steps[s][k].base_prediction = Predict(model, steps[s][k].features)
            /\ Curve(s) =>
                    pm10_out[s].prediction = Pm10Predict(pm10_model, pm10_run[s].features))
    /\ [][\A s \in Sessions :
            /\ steps[s]' # steps[s] => UNCHANGED vars10 /\ Len(steps[s]') <= Len(steps[s]) + 1
            /\ pm10_run[s]' # pm10_run[s] \/ pm10_clicks[s]' # pm10_clicks[s] => UNCHANGED vars7]_vars

\* the layout call of both callbacks done, then one PM10 run: the 7-day
\* callback has returned the empty result and has not iterated
C30_Witness ==
    /\ n_clicks[1] = 0
    /\ pc[1] = "returned"
    /\ out[1] = EmptyResult
    /\ steps[1] = <<>>
    /\ pm10_clicks[1] = 1
    /\ Curve(1)

\* no model loaded on the PM10 track, no click yet: the empty result
C30_NotLoaded ==
    /\ ~pm10_model_loaded
    /\ pm10_clicks[1] = 0
    /\ pm10_pc[1] = "returned"
    /\ pm10_out[1].kind = "empty"

\* ------------------------------------------------------------------- C24
\* the run of session s was ended by model.predict raising in iteration k
PredictorRaisedAt(s, k) ==
    /\ n_clicks[s] > 0
    /\ LagsPresent(inputs[s])
    /\ pc[s] # "loop"
    /\ Len(steps[s]) = k
    /\ k < Steps

\* C24 as stated: when the 7-day predictor raises at step k in 0..6 the
\* exception does not leave the run: the callback returns a user-visible
\* error result, and none of the k values computed before is returned.
C24_CaughtAtBoundary ==
    \A s \in Sessions : \A k \in 0..6 :
        PredictorRaisedAt(s, k) =>
            /\ pc[s] = "returned"
            /\ out[s].kind = "error"
            /\ out[s].predictions = <<>>

\* the predictor raised on the Thursday of a run started on a Friday: six
\* values were computed, the exception left the callback, nothing was returned
C24_EscapedAtLastStep ==
    /\ model = "rejects_thu"
    /\ PredictorRaisedAt(1, 6)
    /\ Len(predictions[1]) = 6
    /\ pc[1] = "raised"
    /\ out[1] = NoResult

\* ------------------------------------------------------------------- C26
\* C26: whatever ran before on either track, returned or failed, a click on
\* predict-7d-button starts from an empty series and empty dates and from
\* the current value, lagged value and mean of its own inputs; the series of
\* the run holds the values of this run's iterations only, 7 when it returns.
C26_Stateless ==
    /\ [](\A s \in Sessions :
            Triggered(s) =>
                /\ Len(steps[s]) <= Steps
                /\ predictions[s] =
                       [k \in 1..Len(steps[s]) |-> steps[s][k].adjusted_prediction]
                /\ Len(dates[s]) = Len(steps[s])
                /\ steps[s] # <<>> =>
                       /\ steps[s][1].current = inputs[s].pm25_1d_ago
                       /\ steps[s][1].lag = inputs[s].pm25_2d_ago
                       /\ steps[s][1].ma = StartMa(inputs[s])
                       /\ dates[s][1] = inputs[s].start_date
                /\ pc[s] = "returned" =>
                       /\ out[s].predictions = predictions[s]
                       /\ out[s].dates = dates[s]
                       /\ Len(out[s].predictions) = Steps)
    /\ [][\A s \in Sessions :
            n_clicks[s]' = n_clicks[s] + 1 /\ pc[s]' = "loop" =>
                /\ predictions[s]' = <<>> /\ dates[s]' = <<>> /\ steps[s]' = <<>>
                /\ day_offset[s]' = 0
                /\ pm25_current[s]' = inputs[s]'.pm25_1d_ago
                /\ pm25_lag1d[s]' = inputs[s]'.pm25_2d_ago
                /\ pm25_ma3d[s]' = StartMa(inputs[s]')]_vars

\* a second 7-day run that returned its 7 values after a PM10 run that failed
\* and one that returned a curve
C26_Witness ==
    /\ n_clicks[1] = 2
    /\ pc[1] = "returned"
    /\ Len(out[1].predictions) = 7
    /\ out[1].dates[1] = Date(2, 25)
    /\ pm10_errors[1] = 1
    /\ pm10_clicks[1] = 2
    /\ Curve(1)

\* a 7-day run started after a run that the predictor ended with an exception
C26_AfterFailedRun ==
    /\ n_clicks[1] = 2
    /\ pc[1] = "loop"
    /\ model = "rejects_sun"
    /\ inputs[1].start_date = Date(1, 5)
    /\ Len(predictions[1]) = 1

\* ------------------------------------------------------------------- C25
\* the iterations of session s follow from its own inputs and its own draws
CarriedStateAlone(s) ==
    /\ day_offset[s] = Len(steps[s])
    /\ predictions[s] = [k \in 1..Len(steps[s]) |-> steps[s][k].adjusted_prediction]
    /\ \A k \in 1..Len(steps[s]) :
          LET st == steps[s][k]
          IN  /\ st.day_offset = k - 1
              /\ st.base_prediction = Predict(model, st.features)
              /\ st.adjusted_prediction =
                     Round2(AdjustedProduct(st.base_prediction,
                                            WeekdayFactor(st.day_of_week),
                                            WeatherFactor(k - 1), RandomFactor(st.u)))
              /\ k = 1 => /\ st.current = inputs[s].pm25_1d_ago
                          /\ st.lag = inputs[s].pm25_2d_ago
                          /\ st.ma = StartMa(inputs[s])
              /\ k > 1 => /\ st.current = steps[s][k - 1].adjusted_prediction
                          /\ st.lag = steps[s][k - 1].current
                          /\ st.ma = NextMa(steps[s][k - 1].ma, steps[s][k - 1].current,
                                            steps[s][k - 1].adjusted_prediction)

\* an iteration of session s changes nothing that the running invocation of
\* another session reads: not the models, and not what its next draw returns
SharesOnlyPredictors(s, t) ==
    s # t /\ steps[s]' # steps[s] /\ pc[t] = "loop" =>
        /\ model' = model
        /\ expected_features' = expected_features
        /\ DrawsAt(random_source', rng_calls') = DrawsAt(random_source, rng_calls)

\* C25 as stated: when the 7-day runs of two sessions interleave, the carried
\* state, the loop counter and the series of each are what its own inputs and
\* its own draws give, and the runs share only the loaded models, which no
\* run modifies: no iteration of one run changes what the other run reads.
C25_RunsIsolated ==
    /\ [](\A s \in Sessions : Triggered(s) => CarriedStateAlone(s))
    /\ [][\A s, t \in Sessions : SharesOnlyPredictors(s, t)]_vars

\* the first half alone: carried state and series from own inputs and draws
C25_CarriedStateAlone == \A s \in Sessions : Triggered(s) => CarriedStateAlone(s)

\* two first runs on the same inputs: session 1 made the first draw of the
\* process, session 2 the second one, which session 1 would have made alone;
\* the two series differ from each other
C25_DrawTakenByOtherRun ==
    /\ n_clicks = [s \in Sessions |-> 1]
    /\ inputs[1] = inputs[2]
    /\ pc = [s \in Sessions |-> "returned"]
    /\ steps[1][1].u = Stream(0)
    /\ steps[2][1].u = Stream(1)
    /\ steps[1][2].u # Stream(1)
    /\ out[1].predictions # out[2].predictions
====
